---- MODULE Spec2Model ----
(***************************************************************************)
(* A model of the Wehe server (dng24/wehe-server): the side-channel        *)
(* protocol engine, the per-IP registry of connected clients with its      *)
(* admission control, and the replay engines that consult the registry.    *)
(***************************************************************************)
EXTENDS Integers, Sequences, FiniteSets, TLC

\* ------------------------------------------------------------------ bounds

\* side-channel connections accepted during a run
NConn == 2
\* cap on len(Client.ReplayResults)
MaxReplays == 3
\* cap on the receiveID frames accepted on one connection
MaxDefers == 2
\* replay TCP connections accepted during a run
NTcp == 1

\* ------------------------------------------------------- program constants

samplesPerReplay == 100
ask4PermissionOkStatus == "0"
ask4PermissionErrorStatus == "1"
ask4PermissionUnknownReplayMsg == "1"
ask4PermissionIPInUseMsg == "2"
ask4PermissionLowResourcesMsg == "3"
ask4PermissionResourceRetrievalFailMsg == "4"

\* ReplayType
Original == 0
Random == 1

\* opcode: the const block assigns receiveID = iota at its third line
invalid == 255
oldDeclareID == 48
\* receiveID given the byte of the legacy protocol
ReceiveIDOnLegacyByte == oldDeclareID
receiveID == 2
ask4permission == 3
mobileStats == 4
throughputs == 5
declareReplay == 6
analyzeTest == 7

\* responseCode
okResponse == 0
errorResponse == 1

\* hasResources thresholds
MemLimit == 95
DiskLimit == 95
UploadLimit == 2000

\* the nil *clienthandler.Client
Nil == 0

\* ------------------------------------------------------------ environment

Conns == 1 .. NConn

\* the Client objects: receiveID on connection c makes object c
ObjIds == Conns

IP1 == "10.0.0.1"
IP2 == "10.0.0.2"
Loopback == "127.0.0.1"

\* conn.RemoteAddr() of a side-channel connection
PeerAddr(c) == IF c % 2 = 1 THEN IP1 ELSE IP2

\* replay names are sequences of tokens, so that "-" can be told from "_"
ZoomDash == <<"Zoom", "-", "04282020">>
ZoomUnder == <<"Zoom", "_", "04282020">>
ZoomRandomDash == <<"ZoomRandom", "-", "04282020">>
ZoomRandomUnder == <<"ZoomRandom", "_", "04282020">>
NoSuchReplay == <<"NoSuchReplay">>

\* SideChannel.ReplayNames: the directory names under tests_dir
ReplayNames == {ZoomUnder, ZoomRandomUnder}

\* strings.Replace(name, "-", "_", -1)
ReplaceDash(name) == [i \in DOMAIN name |-> IF name[i] = "-" THEN "_" ELSE name[i]]

\* strconv.Atoi on the numerals the clients of the model send
AtoiTable == ("0" :> 0) @@ ("1" :> 1) @@ ("2" :> 2) @@ ("3" :> 3) @@ ("23" :> 23) @@ ("42" :> 42)
AtoiOK(s) == s \in DOMAIN AtoiTable
Atoi(s) == AtoiTable[s]

\* strconv.Itoa
Digit == <<"1", "2", "3", "4", "5", "6", "7", "8", "9">>
RECURSIVE Itoa(_)
Itoa(n) ==
    IF n < 10 THEN (IF n = 0 THEN "0" ELSE Digit[n])
    ELSE Itoa(n \div 10) \o (IF n % 10 = 0 THEN "0" ELSE Digit[n % 10])

\* strings.ToLower on the words the clients of the model send
ToLower(s) == IF s = "True" THEN "true" ELSE IF s = "False" THEN "false" ELSE s
strToBoolOK(s) == ToLower(s) \in {"true", "false"}
strToBool(s) == ToLower(s) = "true"

\* --------------------------------------------------------------- variables

VARIABLES
    clientIPs,        \* ConnectedClients.clientIPs: IP -> replay name
    pc,               \* where each side-channel handler goroutine stands
    clt,              \* the handler's clt pointer (Nil or the object's id)
    obj,              \* the Client objects, by the connection that made them
    defers,           \* the handler's deferred CleanUp calls (the IP each deletes)
    resp,             \* the last response written to each connection
    err,           \* the error that ended each handler's loop
    files,            \* the result files on disk
    crashed,          \* the process died of an unrecovered panic
    lastOp,           \* the handler's op: the opcode readRequest returned last
    tcp,              \* the handler goroutine of each replay TCP connection
    udp,              \* the UDP replay server
    unanalyzedTests,  \* analysisServerClient.clients: UserID + TestID -> Client
    http,             \* the last response of the old analysis server
    wire,             \* the bytes last written to a side-channel connection
    got,              \* what the read of the bytes of wire returned
    ks                \* the call of analysis.SampleKS2 that is under way

sideVars == <<clientIPs, pc, clt, obj, defers, resp, err, files, crashed, lastOp>>
replayVars == <<tcp, udp>>
resultVars == <<unanalyzedTests, http>>
frameVars == <<wire, got>>
vars == <<sideVars, replayVars, resultVars, frameVars, ks>>

\* a step outside the old analysis server leaves its table and its last
\* response alone; the table is memory of the process and goes with it. The
\* steps of the handlers and of the replay servers are taken on whole messages:
\* the bytes of the framing functions are not theirs
ResultsUntouched ==
    /\ unanalyzedTests' = IF crashed' THEN <<>> ELSE unanalyzedTests
    /\ UNCHANGED <<http, frameVars, ks>>

\* nothing was read yet
NoMsg == [kind |-> "none"]

\* no request was answered yet
NoHTTP == [status |-> "", success |-> FALSE, error |-> ""]

\* ------------------------------------------------------ ConnectedClients

Has(reg, ip) == ip \in DOMAIN reg
Get(reg, ip) == reg[ip]
add(reg, ip, replayName) == [x \in DOMAIN reg \cup {ip} |-> IF x = ip THEN replayName ELSE reg[x]]
del(reg, ip) == [x \in DOMAIN reg \ {ip} |-> reg[x]]

\* ------------------------------------------------------------------ Client

NoAnalysis == <<>>
NoStats == [Set |-> FALSE, Located |-> FALSE, Lat |-> 0, Long |-> 0]

\* the zero Client: what obj holds before NewClient
ZeroClient ==
    [Conn |-> 0, UserID |-> "", TestID |-> 0, IsLastReplay |-> FALSE, PublicIP |-> "",
     ClientVersion |-> "", MobileStats |-> NoStats, Exceptions |-> "",
     ReplayResults |-> <<>>, Analysis |-> NoAnalysis]

NewClient(conn, userID, testID, publicIP, clientVersion) ==
    [Conn |-> conn, UserID |-> userID, TestID |-> testID, IsLastReplay |-> FALSE,
     PublicIP |-> publicIP, ClientVersion |-> clientVersion, MobileStats |-> NoStats,
     Exceptions |-> "NoExp", ReplayResults |-> <<>>, Analysis |-> NoAnalysis]

NewReplayResult(replayID, replayName) ==
    [ReplayID |-> replayID, ReplayName |-> replayName, Throughputs |-> <<>>,
     SampleTimes |-> <<>>, ReplayDuration |-> 0]

AddReplay(cl, replayID, replayName, isLastReplay) ==
    [cl EXCEPT !.ReplayResults = Append(@, NewReplayResult(replayID, replayName)),
               !.IsLastReplay = isLastReplay]

\* getCurrentReplay fails when there is no replay
HasCurrentReplay(cl) == Len(cl.ReplayResults) > 0
CurrentReplay(cl) == cl.ReplayResults[Len(cl.ReplayResults)]

replayExists(replayNames, currentReplayName) == currentReplayName \in replayNames


\* the resource probes of hasResources, as the three libraries report them:
\* each probe may fail; mem and disk are percentages, mbps the upload rate
\* measured over the one-second window
Reading(memErr, mem, diskErr, disk, netErr, mbps) ==
    [memErr |-> memErr, mem |-> mem, diskErr |-> diskErr, disk |-> disk,
     netErr |-> netErr, mbps |-> mbps]

\* hasResourcesTag with the limits themselves taken for an overload
hasResourcesTagAtLimit(rd) ==
    IF ~rd.memErr /\ rd.mem >= MemLimit THEN "OverloadedMemory"
    ELSE IF ~rd.diskErr /\ rd.disk >= DiskLimit THEN "OverloadedDisk"
    ELSE IF ~rd.netErr /\ rd.mbps >= UploadLimit THEN "OverloadedUpload"
    ELSE ""

\* hasResources: the Exceptions tag it leaves, "" when the server has resources
hasResourcesTag(rd) ==
    IF ~rd.memErr /\ rd.mem > MemLimit THEN "OverloadedMemory"
    ELSE IF ~rd.diskErr /\ rd.disk > DiskLimit THEN "OverloadedDisk"
    ELSE IF ~rd.netErr /\ rd.mbps > UploadLimit THEN "OverloadedUpload"
    ELSE ""
hasResources(rd) == hasResourcesTag(rd) = ""

\* ------------------------------------------------- declare-ID message parse

\* receiveID / oldDeclareID: pieces is strings.Split(message, ";") with
\* pieces[3] the replay name. The result is "err", "panic" (pieces[7] of the
\* source indexed past a slice of seven) or "ok" with the parsed fields.
ParseDeclareID(pieces, peer) ==
    IF Len(pieces) < 6 THEN [kind |-> "err"]
    ELSE IF ~AtoiOK(pieces[2]) THEN [kind |-> "err"]
    ELSE IF Atoi(pieces[2]) \notin {0, 1} THEN [kind |-> "err"]
    ELSE IF ~AtoiOK(pieces[5]) THEN [kind |-> "err"]
    ELSE IF ~strToBoolOK(pieces[6]) THEN [kind |-> "err"]
    ELSE IF Len(pieces) = 7 THEN [kind |-> "panic"]
    ELSE [kind |-> "ok",
          userID |-> pieces[1],
          replayID |-> IF Atoi(pieces[2]) = 0 THEN Original ELSE Random,
          replayName |-> ReplaceDash(pieces[3]),
          testID |-> Atoi(pieces[5]),
          isLastReplay |-> strToBool(pieces[6]),
          publicIP |-> IF Len(pieces) > 6 /\ pieces[7] # Loopback THEN pieces[7] ELSE peer,
          clientVersion |-> IF Len(pieces) > 6 THEN pieces[8] ELSE "1.0"]

\* ------------------------------------------------------ side-channel engine

NoResp == [code |-> invalid, body |-> <<>>]

Live(c) == ~crashed /\ pc[c] = "read"

\* handleConnection: "Client is nil. Was test ever requested?"
ClientIsNil(cltv, op) == cltv = Nil /\ op # oldDeclareID /\ op # receiveID

\* the frame of opcode op reaches the switch
Dispatch(c, op) ==
    /\ Live(c)
    /\ ~ClientIsNil(clt[c], op)
    /\ lastOp' = [lastOp EXCEPT ![c] = op]

\* the loop is left with error e; the deferred calls run next
Break(c, e) ==
    /\ pc' = [pc EXCEPT ![c] = "cleanup"]
    /\ err' = [err EXCEPT ![c] = e]

\* sendResponse: the frame reaches the peer of conn when the write succeeds
Sent(conn, code, body, wr) ==
    IF wr THEN [resp EXCEPT ![conn] = [code |-> code, body |-> body]] ELSE resp

\* a handler that ends by sending a response: the loop goes on if it was written
ReplyAndLoop(c, conn, code, body, wr) ==
    /\ resp' = Sent(conn, code, body, wr)
    /\ IF wr THEN UNCHANGED <<pc, err>> ELSE Break(c, "write")

\* a handler that fails: it tells the client (the write's own error is dropped)
\* and returns its error
ReplyErrorAndBreak(c, conn, wr, e) ==
    /\ resp' = Sent(conn, errorResponse, <<>>, wr)
    /\ Break(c, e)

\* an unrecovered panic in a handler goroutine ends the process: its memory is
\* gone and the kernel closes every connection; what was sent and written stays
Panic ==
    /\ crashed' = TRUE
    /\ clientIPs' = <<>>
    /\ pc' = [c \in Conns |-> "closed"]
    /\ clt' = [c \in Conns |-> Nil]
    /\ obj' = [i \in ObjIds |-> ZeroClient]
    /\ defers' = [c \in Conns |-> <<>>]
    /\ UNCHANGED <<resp, err, files>>

\* case receiveID: a new Client with its first replay; its CleanUp is deferred
ReceiveID(c, pieces, uuidOK) ==
    /\ Dispatch(c, receiveID)
    /\ LET p == ParseDeclareID(pieces, PeerAddr(c)) IN
       CASE p.kind = "panic" -> Panic
         [] p.kind = "err" \/ (p.kind = "ok" /\ ~uuidOK) ->
               /\ clt' = [clt EXCEPT ![c] = Nil]
               /\ Break(c, "receiveID")
               /\ UNCHANGED <<clientIPs, obj, defers, resp, files, crashed>>
         [] OTHER ->
               /\ Len(defers[c]) < MaxDefers
               /\ clt' = [clt EXCEPT ![c] = c]
               /\ obj' = [obj EXCEPT ![c] =
                      AddReplay(NewClient(c, p.userID, p.testID, p.publicIP, p.clientVersion),
                                p.replayID, p.replayName, p.isLastReplay)]
               /\ defers' = [defers EXCEPT ![c] = Append(@, p.publicIP)]
               /\ UNCHANGED <<clientIPs, pc, resp, err, files, crashed>>
    /\ UNCHANGED replayVars /\ ResultsUntouched

\* Ask4PermissionCheck with the registry check before the catalog check
Ask4PermissionCheckRegistryFirst(c, wr) ==
    /\ Dispatch(c, ask4permission)
    /\ LET id == clt[c]
           cl == obj[id] IN
       IF ~HasCurrentReplay(cl) THEN
           /\ Break(c, "ask4permission")
           /\ UNCHANGED <<clientIPs, clt, obj, defers, resp, files, crashed>>
       ELSE IF Has(clientIPs, cl.PublicIP) THEN
           /\ obj' = [obj EXCEPT ![id].Exceptions = "NoPermission"]
           /\ ReplyAndLoop(c, cl.Conn, okResponse,
                  <<ask4PermissionErrorStatus, ask4PermissionIPInUseMsg>>, wr)
           /\ UNCHANGED <<clientIPs, clt, defers, files, crashed>>
       ELSE IF ~replayExists(ReplayNames, CurrentReplay(cl).ReplayName) THEN
           /\ obj' = [obj EXCEPT ![id].Exceptions = "UnknownRelplayName"]
           /\ ReplyAndLoop(c, cl.Conn, okResponse,
                  <<ask4PermissionErrorStatus, ask4PermissionUnknownReplayMsg>>, wr)
           /\ UNCHANGED <<clientIPs, clt, defers, files, crashed>>
       ELSE
           /\ pc' = [pc EXCEPT ![c] = "probe"]
           /\ UNCHANGED <<clientIPs, clt, obj, defers, resp, err, files, crashed>>
    /\ UNCHANGED replayVars /\ ResultsUntouched

\* Client.Ask4Permission up to the call of hasResources: the catalog check and
\* the registry check (Has locks and unlocks the mutex on its own)
Ask4PermissionCheck(c, wr) ==
    /\ Dispatch(c, ask4permission)
    /\ LET id == clt[c]
           cl == obj[id] IN
       IF ~HasCurrentReplay(cl) THEN
           /\ Break(c, "ask4permission")
           /\ UNCHANGED <<clientIPs, clt, obj, defers, resp, files, crashed>>
       ELSE IF ~replayExists(ReplayNames, CurrentReplay(cl).ReplayName) THEN
           /\ obj' = [obj EXCEPT ![id].Exceptions = "UnknownRelplayName"]
           /\ ReplyAndLoop(c, cl.Conn, okResponse,
                  <<ask4PermissionErrorStatus, ask4PermissionUnknownReplayMsg>>, wr)
           /\ UNCHANGED <<clientIPs, clt, defers, files, crashed>>
       ELSE IF Has(clientIPs, cl.PublicIP) THEN
           /\ obj' = [obj EXCEPT ![id].Exceptions = "NoPermission"]
           /\ ReplyAndLoop(c, cl.Conn, okResponse,
                  <<ask4PermissionErrorStatus, ask4PermissionIPInUseMsg>>, wr)
           /\ UNCHANGED <<clientIPs, clt, defers, files, crashed>>
       ELSE
           /\ pc' = [pc EXCEPT ![c] = "probe"]
           /\ UNCHANGED <<clientIPs, clt, obj, defers, resp, err, files, crashed>>
    /\ UNCHANGED replayVars /\ ResultsUntouched

\* the accesses to ConnectedClients.clientIPs that the handler of connection c
\* makes in its next step, and whether ConnectedClients.mutex is held at each:
\* Has, add and del lock it and unlock it on return; Ask4Permission takes
\* len(connectedClientIPs.clientIPs) for hasResources without it
RegistryAccesses(c) ==
    IF crashed THEN <<>>
    ELSE IF pc[c] = "probe" THEN
        <<[site |-> "len", write |-> FALSE, mutex |-> FALSE],
          [site |-> "add", write |-> TRUE, mutex |-> TRUE]>>
    ELSE IF pc[c] = "cleanup" /\ defers[c] # <<>> THEN
        <<[site |-> "del", write |-> TRUE, mutex |-> TRUE]>>
    ELSE IF pc[c] = "read" /\ clt[c] # Nil THEN
        <<[site |-> "Has", write |-> FALSE, mutex |-> TRUE]>>
    ELSE <<>>

\* Ask4PermissionAdmit with the add before the verdict of hasResources is used
Ask4PermissionAdmitAddsFirst(c, rd, wr) ==
    /\ ~crashed
    /\ pc[c] = "probe"
    /\ LET id == clt[c]
           cl == obj[id] IN
       /\ clientIPs' = add(clientIPs, cl.PublicIP, CurrentReplay(cl).ReplayName)
       /\ IF ~hasResources(rd) THEN
              /\ obj' = [obj EXCEPT ![id].Exceptions = hasResourcesTag(rd)]
              /\ resp' = Sent(cl.Conn, okResponse,
                     <<ask4PermissionErrorStatus, ask4PermissionLowResourcesMsg>>, wr)
          ELSE
              /\ resp' = Sent(cl.Conn, okResponse,
                     <<ask4PermissionOkStatus, Itoa(samplesPerReplay)>>, wr)
              /\ UNCHANGED obj
    /\ IF wr THEN pc' = [pc EXCEPT ![c] = "read"] /\ UNCHANGED err
             ELSE Break(c, "write")
    /\ UNCHANGED <<clt, defers, files, crashed, lastOp>>
    /\ UNCHANGED replayVars /\ ResultsUntouched

\* Client.Ask4Permission from hasResources on: the probes (one of them sleeps
\* a second), then add(PublicIP, ReplayName) and the answer
Ask4PermissionAdmit(c, rd, wr) ==
    /\ ~crashed
    /\ pc[c] = "probe"
    /\ LET id == clt[c]
           cl == obj[id] IN
       IF ~hasResources(rd) THEN
           /\ obj' = [obj EXCEPT ![id].Exceptions = hasResourcesTag(rd)]
           /\ resp' = Sent(cl.Conn, okResponse,
                  <<ask4PermissionErrorStatus, ask4PermissionLowResourcesMsg>>, wr)
           /\ UNCHANGED clientIPs
       ELSE
           /\ clientIPs' = add(clientIPs, cl.PublicIP, CurrentReplay(cl).ReplayName)
           /\ resp' = Sent(cl.Conn, okResponse,
                  <<ask4PermissionOkStatus, Itoa(samplesPerReplay)>>, wr)
           /\ UNCHANGED obj
    /\ IF wr THEN pc' = [pc EXCEPT ![c] = "read"] /\ UNCHANGED err
             ELSE Break(c, "write")
    /\ UNCHANGED <<clt, defers, files, crashed, lastOp>>
    /\ UNCHANGED replayVars /\ ResultsUntouched


\* strconv.ParseFloat on the numbers the clients of the model send, in hundredths
FloatTable == ("10.0" :> 1000) @@ ("42.36" :> 4236) @@ ("71.05" :> 7105) @@ ("0.0" :> 0)
ParseFloatOK(s) == s \in DOMAIN FloatTable
ParseFloat(s) == FloatTable[s]

\* math.Round(x * 10) / 10 of a non-negative x given in hundredths, in tenths
RoundTenths(h) == (h + 5) \div 10

\* Client.ReceiveMobileStats on the JSON object msg: "err", or the MobileStats
\* it stores. geoOK: ReverseGeocode and time.LoadLocation succeed.
MobileStatsOf(msg, geoOK) ==
    IF ~msg.json THEN [kind |-> "err"]
    ELSE IF ~msg.locationInfo THEN [kind |-> "err"]
    ELSE IF msg.latitude = "absent" THEN [kind |-> "err"]
    ELSE IF msg.longitude = "absent" THEN [kind |-> "err"]
    ELSE IF msg.latitude # "nil" /\ msg.longitude # "nil"
            /\ msg.latitude # "0.0" /\ msg.longitude # "0.0" THEN
        IF ~ParseFloatOK(msg.latitude) THEN [kind |-> "err"]
        ELSE IF ~ParseFloatOK(msg.longitude) THEN [kind |-> "err"]
        ELSE IF ~geoOK THEN [kind |-> "err"]
        ELSE [kind |-> "ok",
              stats |-> [Set |-> TRUE, Located |-> TRUE,
                         Lat |-> RoundTenths(ParseFloat(msg.latitude)),
                         Long |-> RoundTenths(ParseFloat(msg.longitude))]]
    ELSE [kind |-> "ok", stats |-> [Set |-> TRUE, Located |-> FALSE, Lat |-> 0, Long |-> 0]]

\* case mobileStats
ReceiveMobileStats(c, msg, geoOK, wr) ==
    /\ Dispatch(c, mobileStats)
    /\ LET id == clt[c]
           cl == obj[id]
           r == MobileStatsOf(msg, geoOK) IN
       IF r.kind = "err" THEN
           /\ ReplyErrorAndBreak(c, cl.Conn, wr, "mobileStats")
           /\ UNCHANGED obj
       ELSE
           /\ obj' = [obj EXCEPT ![id].MobileStats = r.stats]
           /\ ReplyAndLoop(c, cl.Conn, okResponse, <<>>, wr)
    /\ UNCHANGED <<clientIPs, clt, defers, files, crashed>>
    /\ UNCHANGED replayVars /\ ResultsUntouched

\* json.Unmarshal into [][]float64 of the bodies the clients of the model send,
\* the floats in tenths
JSONTable ==
    ("[[10.5,10.4],[0.1,0.2]]" :> << <<105, 104>>, <<1, 2>> >>) @@
    ("[[7.1,7.0],[0.3,0.4]]" :> << <<71, 70>>, <<3, 4>> >>) @@
    ("[[0.0],[0.1]]" :> << <<0>>, <<1>> >>) @@
    ("[[0.0,7.1,0.0,7.1],[0.0,0.3]]" :> << <<0, 71, 0, 71>>, <<0, 3>> >>) @@
    ("[[7.1],[0.0]]" :> << <<71>>, <<0>> >>) @@
    ("[[1.0]]" :> << <<10>> >>)
UnmarshalOK(s) == s \in DOMAIN JSONTable
Unmarshal(s) == JSONTable[s]

\* net.ParseIP succeeds
ValidIP(ip) == ip \in {IP1, IP2, Loopback}

\* Client.ReceiveThroughputs on data = strings.Split(message, ";"): the Client
\* after the call, whether it failed, and whether the throughput file is written
\* (fileOK: writeToFile succeeds). A failure keeps what was assigned before it.
ReceiveThroughputsOf(cl, data, fileOK) ==
    IF ~HasCurrentReplay(cl) THEN [ok |-> FALSE, cl |-> cl, file |-> FALSE]
    ELSE IF Len(data) < 2 THEN [ok |-> FALSE, cl |-> cl, file |-> FALSE]
    ELSE IF ~ParseFloatOK(data[1]) THEN [ok |-> FALSE, cl |-> cl, file |-> FALSE]
    ELSE LET n == Len(cl.ReplayResults)
             cl1 == [cl EXCEPT !.ReplayResults[n].ReplayDuration = ParseFloat(data[1])] IN
        IF ~UnmarshalOK(data[2]) THEN [ok |-> FALSE, cl |-> cl1, file |-> FALSE]
        ELSE IF Len(Unmarshal(data[2])) # 2 THEN [ok |-> FALSE, cl |-> cl1, file |-> FALSE]
        ELSE LET cl2 == [cl1 EXCEPT !.ReplayResults[n].Throughputs = Unmarshal(data[2])[1],
                                    !.ReplayResults[n].SampleTimes = Unmarshal(data[2])[2]] IN
            [ok |-> fileOK, cl |-> cl2, file |-> fileOK]

XputFile(cl) == <<"Xput", cl.UserID, cl.TestID, CurrentReplay(cl).ReplayID>>
ReplayInfoFile(cl) == <<"replayInfo", cl.UserID, cl.TestID, CurrentReplay(cl).ReplayID>>

\* Client.WriteReplayInfoToFile succeeds (infoOK: writeToFile succeeds)
WriteReplayInfoOK(cl, infoOK) == HasCurrentReplay(cl) /\ ValidIP(cl.PublicIP) /\ infoOK

\* case throughputs: receiveThroughputs, then WriteReplayInfoToFile
ReceiveThroughputs(c, data, fileOK, infoOK, wr) ==
    /\ Dispatch(c, throughputs)
    /\ LET id == clt[c]
           cl == obj[id]
           r == ReceiveThroughputsOf(cl, data, fileOK) IN
       /\ obj' = [obj EXCEPT ![id] = r.cl]
       /\ IF ~r.ok THEN
              /\ ReplyErrorAndBreak(c, cl.Conn, wr, "throughputs")
              /\ files' = IF r.file THEN files \cup {XputFile(r.cl)} ELSE files
          ELSE
              /\ resp' = Sent(cl.Conn, okResponse, <<>>, wr)
              /\ IF ~wr THEN
                     /\ Break(c, "write")
                     /\ files' = files \cup {XputFile(r.cl)}
                 ELSE IF ~WriteReplayInfoOK(r.cl, infoOK) THEN
                     /\ Break(c, "replayInfo")
                     /\ files' = files \cup {XputFile(r.cl)}
                 ELSE
                     /\ UNCHANGED <<pc, err>>
                     /\ files' = files \cup {XputFile(r.cl), ReplayInfoFile(r.cl)}
    /\ UNCHANGED <<clientIPs, clt, defers, crashed>>
    /\ UNCHANGED replayVars /\ ResultsUntouched

\* Client.DeclareReplay on pieces = strings.Split(message, ";"), pieces[2] the
\* replay name: "err", or the status and info it returns with the Client after
\* AddReplay
DeclareReplayOf(cl, replayNames, pieces) ==
    IF Len(pieces) < 3 THEN [kind |-> "err"]
    ELSE IF ~AtoiOK(pieces[1]) THEN [kind |-> "err"]
    ELSE IF Atoi(pieces[1]) \notin {0, 1} THEN [kind |-> "err"]
    ELSE IF ~strToBoolOK(pieces[3]) THEN [kind |-> "err"]
    ELSE LET replayID == IF Atoi(pieces[1]) = 0 THEN Original ELSE Random
             replayName == ReplaceDash(pieces[2])
             cl1 == AddReplay(cl, replayID, replayName, strToBool(pieces[3])) IN
        IF ~replayExists(replayNames, replayName) THEN
            [kind |-> "ok", cl |-> [cl1 EXCEPT !.Exceptions = "UnknownRelplayName"],
             status |-> ask4PermissionErrorStatus, info |-> ask4PermissionUnknownReplayMsg]
        ELSE
            [kind |-> "ok", cl |-> cl1,
             status |-> ask4PermissionOkStatus, info |-> Itoa(samplesPerReplay)]

\* case declareReplay
DeclareReplay(c, pieces, wr) ==
    /\ Dispatch(c, declareReplay)
    /\ LET id == clt[c]
           cl == obj[id]
           r == DeclareReplayOf(cl, ReplayNames, pieces) IN
       IF r.kind = "err" THEN
           /\ Break(c, "declareReplay")
           /\ UNCHANGED <<obj, resp>>
       ELSE
           /\ Len(cl.ReplayResults) < MaxReplays
           /\ obj' = [obj EXCEPT ![id] = r.cl]
           /\ ReplyAndLoop(c, cl.Conn, okResponse, <<r.status, r.info>>, wr)
    /\ UNCHANGED <<clientIPs, clt, defers, files, crashed>>
    /\ UNCHANGED replayVars /\ ResultsUntouched


\* ---------------------------------------------------------------- analysis

RECURSIVE SumSeq(_)
SumSeq(q) == IF q = <<>> THEN 0 ELSE Head(q) + SumSeq(Tail(q))

NonZero(v) == v # 0

\* CleanedData with the zeros left in
CleanedDataKeepsZeros(data) == data

\* analysis.NewDataSetStats: the data without its zeros; it fails on none left
CleanedData(data) == SelectSeq(data, NonZero)
NewDataSetStatsOK(data) == Len(CleanedData(data)) > 0
NewDataSetStats(data) ==
    [Data |-> CleanedData(data), Sum |-> SumSeq(CleanedData(data))]

\* Client.AnalyzeTest: "err", or the AnalysisResults it stores. ksOK: the
\* python subprocess of KS2Samp and SampleKS2 runs and prints two floats.
AnalyzeTestOf(cl, ksOK) ==
    IF Len(cl.ReplayResults) < 2 THEN [kind |-> "err"]
    ELSE LET r1 == cl.ReplayResults[1]
             r2 == cl.ReplayResults[2]
             straight == r1.ReplayID = Original /\ r2.ReplayID = Random
             crossed == r1.ReplayID = Random /\ r2.ReplayID = Original IN
        IF ~straight /\ ~crossed THEN [kind |-> "err"]
        ELSE LET orig == IF straight THEN r1 ELSE r2
                 rand == IF straight THEN r2 ELSE r1 IN
            IF ~NewDataSetStatsOK(orig.Throughputs) THEN [kind |-> "err"]
            ELSE IF ~NewDataSetStatsOK(rand.SampleTimes) THEN [kind |-> "err"]
            ELSE IF ~ksOK THEN [kind |-> "err"]
            ELSE [kind |-> "ok",
                  analysis |-> [OriginalReplayStats |-> NewDataSetStats(orig.Throughputs),
                                RandomReplayStats |-> NewDataSetStats(rand.SampleTimes)]]

\* case analyzeTest
AnalyzeTest(c, ksOK, wr) ==
    /\ Dispatch(c, analyzeTest)
    /\ LET id == clt[c]
           cl == obj[id]
           r == AnalyzeTestOf(cl, ksOK) IN
       IF r.kind = "err" THEN
           /\ ReplyErrorAndBreak(c, cl.Conn, wr, "analyzeTest")
           /\ UNCHANGED obj
       ELSE
           /\ obj' = [obj EXCEPT ![id].Analysis = <<r.analysis>>]
           /\ ReplyAndLoop(c, cl.Conn, okResponse, <<"KS2Result">>, wr)
    /\ UNCHANGED <<clientIPs, clt, defers, files, crashed>>
    /\ UNCHANGED replayVars /\ ResultsUntouched

\* ------------------------------------------------- the loop's other exits

AssignedOpcodes ==
    {oldDeclareID, receiveID, ask4permission, mobileStats, throughputs, declareReplay, analyzeTest}

\* ClientNil without the break: the frame is skipped and the loop reads on
ClientNilReadsOn(c, op) ==
    /\ Live(c)
    /\ ClientIsNil(clt[c], op)
    /\ lastOp' = [lastOp EXCEPT ![c] = op]
    /\ err' = [err EXCEPT ![c] = "clientNil"]
    /\ UNCHANGED <<clientIPs, pc, clt, obj, defers, resp, files, crashed>>
    /\ UNCHANGED replayVars /\ ResultsUntouched

\* a frame other than a declare-ID while clt is nil
ClientNil(c, op) ==
    /\ Live(c)
    /\ ClientIsNil(clt[c], op)
    /\ lastOp' = [lastOp EXCEPT ![c] = op]
    /\ Break(c, "clientNil")
    /\ UNCHANGED <<clientIPs, clt, obj, defers, resp, files, crashed>>
    /\ UNCHANGED replayVars /\ ResultsUntouched

\* default: "Unknown side channel opcode"
UnknownOpcode(c, op) ==
    /\ Dispatch(c, op)
    /\ op \notin AssignedOpcodes
    /\ Break(c, "unknownOpcode")
    /\ UNCHANGED <<clientIPs, clt, obj, defers, resp, files, crashed>>
    /\ UNCHANGED replayVars /\ ResultsUntouched

\* readRequest fails: the peer closed the connection, or the read broke
ReadError(c) ==
    /\ Live(c)
    /\ lastOp' = [lastOp EXCEPT ![c] = invalid]
    /\ Break(c, "read")
    /\ UNCHANGED <<clientIPs, clt, obj, defers, resp, files, crashed>>
    /\ UNCHANGED replayVars /\ ResultsUntouched

\* CleanUp without the delete
CleanUpKeepsEntry(reg, ip) == reg

\* Client.CleanUp
CleanUp(reg, ip) == del(reg, ip)

\* the handler returns: its deferred calls run last in, first out, one CleanUp
\* at a time; conn.Close(), deferred first, follows the last of them
RunDeferred(c) ==
    /\ ~crashed
    /\ pc[c] = "cleanup"
    /\ clientIPs' = IF defers[c] # <<>> THEN CleanUp(clientIPs, defers[c][Len(defers[c])])
                                        ELSE clientIPs
    /\ IF Len(defers[c]) > 1 THEN
           /\ defers' = [defers EXCEPT ![c] = SubSeq(@, 1, Len(@) - 1)]
           /\ UNCHANGED <<pc, clt, obj>>
       ELSE
           /\ defers' = [defers EXCEPT ![c] = <<>>]
           /\ pc' = [pc EXCEPT ![c] = "closed"]
           /\ clt' = [clt EXCEPT ![c] = Nil]
           /\ obj' = [obj EXCEPT ![c] = ZeroClient]
    /\ UNCHANGED <<resp, err, files, crashed, lastOp>>
    /\ UNCHANGED replayVars /\ ResultsUntouched

\* ------------------------------------------------------ legacy side channel

\* the connections of the side channel come from tls.Listen, so the conn that
\* handleConnection hands on is a *tls.Conn: the assertion conn.(*net.TCPConn)
\* of oldDeclareID yields ok = false
IsTCPConn(c) == FALSE

\* handleOldSideChannel returning nil: the loop of handleConnection reads on
OldDeclareIDReturnsNil(c, pieces, rd) ==
    /\ Dispatch(c, oldDeclareID)
    /\ UNCHANGED <<clientIPs, pc, clt, obj, defers, resp, err, files, crashed>>
    /\ UNCHANGED replayVars /\ ResultsUntouched

\* case oldDeclareID: handleOldSideChannel calls oldDeclareID. rd: the reads of
\* the length prefix and of the body ("ok" or "err"). A body of seven pieces
\* panics at pieces[7]; every other path ends in an error (the read, the
\* parse, or "Side Channel expected to be TCP connection"), which
\* handleOldSideChannel returns before it defers a CleanUp, and the loop breaks
OldDeclareID(c, pieces, rd) ==
    /\ Dispatch(c, oldDeclareID)
    /\ LET p == ParseDeclareID(pieces, PeerAddr(c)) IN
       IF rd = "ok" /\ p.kind = "panic" THEN Panic
       ELSE /\ rd = "err" \/ p.kind = "err" \/ ~IsTCPConn(c)
            /\ Break(c, "oldDeclareID")
            /\ UNCHANGED <<clientIPs, clt, obj, defers, resp, files, crashed>>
    /\ UNCHANGED replayVars /\ ResultsUntouched

\* ----------------------------------------------------------- replay engines

TConns == 1 .. NTcp

\* testdata.ParseReplayJSON on the replay files of the model: Zoom_04282020 is
\* a TCP trace of two response sets, ZoomRandom_04282020 a UDP trace
TCPResponseSet(requestLength, packets) ==
    [RequestLength |-> requestLength, Packets |-> packets]
ReplayFiles ==
    (ZoomUnder :> [IsTCP |-> TRUE,
                   Responses |-> <<TCPResponseSet(2, <<"s1p1", "s1p2">>),
                                   TCPResponseSet(1, <<"s2p1">>)>>]) @@
    (ZoomRandomUnder :> [IsTCP |-> FALSE, Responses |-> <<"u1", "u2">>])
ParseReplayJSONOK(replayName) == replayName \in DOMAIN ReplayFiles
ParseReplayJSON(replayName) == ReplayFiles[replayName]

\* strings.HasPrefix on messages given as sequences of tokens
HasPrefix(msg, prefix) ==
    Len(msg) >= Len(prefix) /\ SubSeq(msg, 1, Len(prefix)) = prefix
IsWhatsMyIP(msg) ==
    HasPrefix(msg, <<"GET /", "WHATSMYIPMAN">>) \/ HasPrefix(msg, <<"WHATSMYIPMAN">>)

NewTCP ==
    [pc |-> "accept", ip |-> "", replay |-> <<>>, numBytes |-> 0, i |-> 0, k |-> 0,
     sent |-> <<>>, reply |-> <<>>, rcvd |-> 0]

\* TCPServer.handleConnection up to the replay loop. ip: conn.RemoteAddr();
\* rdOK, first, n: the first conn.Read, the buffer it filled and its length;
\* wr: conn.Write succeeds; parseOK: the replay file is read and unpacked.
\* rcvd adds up the byte counts that the conn.Read calls of the handler return.
TCPFirstRead(t, ip, rdOK, first, n, wr, parseOK) ==
    /\ ~crashed
    /\ tcp[t].pc = "accept"
    /\ tcp' =
         IF ~rdOK THEN [tcp EXCEPT ![t].pc = "closed", ![t].ip = ip]
         ELSE IF IsWhatsMyIP(first) THEN
             [tcp EXCEPT ![t].pc = "closed", ![t].ip = ip,
                         ![t].reply = IF wr THEN <<"HTTP/1.1 200 OK", ip>> ELSE <<>>]
         ELSE IF ~Has(clientIPs, ip) THEN [tcp EXCEPT ![t].pc = "closed", ![t].ip = ip]
         ELSE IF ~parseOK \/ ~ParseReplayJSONOK(Get(clientIPs, ip)) THEN
             [tcp EXCEPT ![t].pc = "closed", ![t].ip = ip]
         ELSE [tcp EXCEPT ![t].pc = "wait", ![t].ip = ip, ![t].replay = Get(clientIPs, ip),
                          ![t].numBytes = n, ![t].i = 1, ![t].rcvd = n]
    /\ UNCHANGED <<sideVars, udp, resultVars, frameVars, ks>>

\* TCPWait without the wait for RequestLength bytes
TCPWaitNoGate(t, rdOK, n) ==
    /\ ~crashed
    /\ tcp[t].pc = "wait"
    /\ LET s == tcp[t]
           info == ParseReplayJSON(s.replay) IN
       IF s.i <= Len(info.Responses) /\ ~info.IsTCP THEN
           Panic /\ UNCHANGED lastOp /\ UNCHANGED replayVars /\ ResultsUntouched
       ELSE
           /\ tcp' =
                IF s.i > Len(info.Responses) THEN [tcp EXCEPT ![t].pc = "closed"]
                ELSE [tcp EXCEPT ![t].pc = "send", ![t].numBytes = 0, ![t].k = 1]
           /\ UNCHANGED <<sideVars, udp, resultVars, frameVars, ks>>

\* the head of the loop over replayInfo.Responses: the type assertion, then
\* the reads until RequestLength bytes were received; numBytes = 0 follows
TCPWait(t, rdOK, n) ==
    /\ ~crashed
    /\ tcp[t].pc = "wait"
    /\ LET s == tcp[t]
           info == ParseReplayJSON(s.replay) IN
       IF s.i <= Len(info.Responses) /\ ~info.IsTCP THEN
           Panic /\ UNCHANGED lastOp /\ UNCHANGED replayVars /\ ResultsUntouched
       ELSE
           /\ tcp' =
                IF s.i > Len(info.Responses) THEN [tcp EXCEPT ![t].pc = "closed"]
                ELSE IF s.numBytes >= info.Responses[s.i].RequestLength THEN
                    [tcp EXCEPT ![t].pc = "send", ![t].numBytes = 0, ![t].k = 1]
                ELSE IF ~rdOK THEN [tcp EXCEPT ![t].pc = "closed"]
                ELSE [tcp EXCEPT ![t].numBytes = @ + n, ![t].rcvd = @ + n]
           /\ UNCHANGED <<sideVars, udp, resultVars, frameVars, ks>>

\* TCPHas without the lookup
TCPHasNoLookup(t) ==
    /\ ~crashed
    /\ tcp[t].pc = "send"
    /\ LET s == tcp[t]
           packets == ParseReplayJSON(s.replay).Responses[s.i].Packets IN
       tcp' = IF s.k > Len(packets) THEN [tcp EXCEPT ![t].pc = "wait", ![t].i = @ + 1]
              ELSE [tcp EXCEPT ![t].pc = "write"]
    /\ UNCHANGED <<sideVars, udp, resultVars, frameVars, ks>>

\* the head of the loop over responseSet.Packets: IPReplayNameMapping.Has
TCPHas(t) ==
    /\ ~crashed
    /\ tcp[t].pc = "send"
    /\ LET s == tcp[t]
           packets == ParseReplayJSON(s.replay).Responses[s.i].Packets IN
       tcp' = IF s.k > Len(packets) THEN [tcp EXCEPT ![t].pc = "wait", ![t].i = @ + 1]
              ELSE IF ~Has(clientIPs, s.ip) THEN [tcp EXCEPT ![t].pc = "closed"]
              ELSE [tcp EXCEPT ![t].pc = "write"]
    /\ UNCHANGED <<sideVars, udp, resultVars, frameVars, ks>>

\* the sleep up to the packet's time, then conn.Write(packet.Payload)
TCPWrite(t, wr) ==
    /\ ~crashed
    /\ tcp[t].pc = "write"
    /\ LET s == tcp[t]
           packets == ParseReplayJSON(s.replay).Responses[s.i].Packets IN
       tcp' = IF wr THEN [tcp EXCEPT ![t].sent = Append(@, packets[s.k]), ![t].k = @ + 1,
                                     ![t].pc = "send"]
              ELSE [tcp EXCEPT ![t].pc = "closed"]
    /\ UNCHANGED <<sideVars, udp, resultVars, frameVars, ks>>

NewUDP == [listening |-> TRUE, seen |-> {}, sent |-> <<>>]

\* UDPServer.StartServer reads a datagram: handleConnection is handed buffer,
\* does not look at it, and prints the source address; a failed read goes to
\* errChan, app.Run returns it and main exits
UDPDatagram(ip, buffer, rdOK) ==
    /\ ~crashed
    /\ udp.listening
    /\ IF rdOK THEN /\ udp' = [udp EXCEPT !.seen = @ \cup {ip}]
                    /\ UNCHANGED <<sideVars, tcp, resultVars, frameVars, ks>>
       ELSE /\ Panic
            /\ UNCHANGED lastOp
            /\ udp' = [udp EXCEPT !.listening = FALSE]
            /\ UNCHANGED tcp
            /\ ResultsUntouched

\* ------------------------------------------------------------------ inputs

\* the declare-ID bodies of eight and of six pieces over the given fields
DeclareIDBodies(users, rids, names, tids, lasts, ips) ==
    {<<u, r, n, "retries=1", t, l, ip, "4.0">> :
        u \in users, r \in rids, n \in names, t \in tids, l \in lasts, ip \in ips}
    \cup {<<u, r, n, "retries=1", t, l>> :
        u \in users, r \in rids, n \in names, t \in tids, l \in lasts}


StatsBody(json, loc, lat, long) ==
    [json |-> json, locationInfo |-> loc, latitude |-> lat, longitude |-> long]


\* the readings of the resource probes
Readings ==
    {Reading(FALSE, 50, FALSE, 50, FALSE, 10), Reading(FALSE, 96, FALSE, 50, FALSE, 10)}


\* ----------------------------------------------------------- specification

\* no call of SampleKS2 is under way
NoCall == [pc |-> "idle", data1 |-> <<>>, data2 |-> <<>>, ks2pVal |-> 0, greater |-> FALSE,
           i |-> 0, accept |-> 0, ratio |-> -100]

InitProcess ==
    /\ clientIPs = <<>>
    /\ pc = [c \in Conns |-> "read"]
    /\ clt = [c \in Conns |-> Nil]
    /\ obj = [i \in ObjIds |-> ZeroClient]
    /\ defers = [c \in Conns |-> <<>>]
    /\ resp = [c \in Conns |-> NoResp]
    /\ err = [c \in Conns |-> "none"]
    /\ files = {}
    /\ crashed = FALSE
    /\ lastOp = [c \in Conns |-> invalid]
    /\ tcp = [t \in TConns |-> NewTCP]
    /\ udp = NewUDP
    /\ http = NoHTTP
    /\ wire = <<>>
    /\ got = NoMsg
    /\ ks = NoCall

Init == InitProcess /\ unanalyzedTests = <<>>

\* a current-protocol frame of a client reaches the handler of connection c;
\* the client and the environment draw what they send and do from the sets of I
CurrentStep(c, I) ==
    \/ \E m \in I.declareIDs, u \in I.uuidOK : ReceiveID(c, m, u)
    \/ \E wr \in I.wr : Ask4PermissionCheck(c, wr)
    \/ \E rd \in I.readings, wr \in I.wr : Ask4PermissionAdmit(c, rd, wr)
    \/ \E m \in I.stats, g \in I.geoOK, wr \in I.wr : ReceiveMobileStats(c, m, g, wr)
    \/ \E m \in I.xputs, f \in I.fileOK, i \in I.fileOK, wr \in I.wr :
           ReceiveThroughputs(c, m, f, i, wr)
    \/ \E m \in I.declareReplays, wr \in I.wr : DeclareReplay(c, m, wr)
    \/ \E k \in I.ksOK, wr \in I.wr : AnalyzeTest(c, k, wr)
    \/ \E m \in I.declareIDs, rd \in I.rd : OldDeclareID(c, m, rd)
    \/ \E op \in I.nilOps : ClientNil(c, op)
    \/ \E op \in I.otherOps : UnknownOpcode(c, op)

\* the connection breaks, and the handler returns
CloseStep(c) ==
    \/ ReadError(c)
    \/ RunDeferred(c)

GoodJSON == "[[10.5,10.4],[0.1,0.2]]"

\* Spec: one client and every frame it may send on its connection
SpecInputs ==
    [declareIDs |-> DeclareIDBodies({"U1"}, {"0"}, {ZoomDash, NoSuchReplay}, {"23"}, {"false"},
                                    {IP2, Loopback})
                    \cup {<<"U1", "0", ZoomDash>>,
                          <<"U1", "0", ZoomDash, "retries=1", "23", "false", IP1>>},
     uuidOK |-> {TRUE},
     wr |-> BOOLEAN,
     readings |-> Readings,
     stats |-> {StatsBody(TRUE, TRUE, "nil", "nil"), StatsBody(FALSE, FALSE, "absent", "absent")},
     geoOK |-> {TRUE},
     xputs |-> {<<"10.0", GoodJSON>>, <<"10.0", "garbage">>},
     fileOK |-> {TRUE},
     declareReplays |-> {<<"1", ZoomRandomDash, "true">>, <<"1", ZoomDash>>},
     ksOK |-> {TRUE},
     nilOps |-> {ask4permission, mobileStats, throughputs, declareReplay, analyzeTest, 8},
     otherOps |-> {8},
     rd |-> {"ok", "err"}]

SessionConns == {1}

Next == \E c \in SessionConns : CurrentStep(c, SpecInputs) \/ CloseStep(c)

Spec == Init /\ [][Next]_vars

\* SpecAdmission: concurrent clients that identify, ask for permission and leave
AdmissionInputs ==
    [declareIDs |-> DeclareIDBodies({"U1"}, {"0"}, {ZoomDash, NoSuchReplay}, {"23"}, {"false"},
                                    {IP1, Loopback}),
     uuidOK |-> {TRUE},
     wr |-> {TRUE},
     readings |-> Readings,
     rd |-> {"ok"}]

AdmissionStep(c, I) ==
    \/ \E m \in I.declareIDs, u \in I.uuidOK : ReceiveID(c, m, u)
    \/ \E wr \in I.wr : Ask4PermissionCheck(c, wr)
    \/ \E rd \in I.readings, wr \in I.wr : Ask4PermissionAdmit(c, rd, wr)
    \/ \E m \in I.declareIDs, rd \in I.rd : OldDeclareID(c, m, rd)

NextAdmission == \E c \in Conns : AdmissionStep(c, AdmissionInputs) \/ CloseStep(c)

SpecAdmission == Init /\ [][NextAdmission]_vars

\* SpecReplay: one side-channel client and the clients of the replay ports
ReplayInputs ==
    [declareIDs |-> DeclareIDBodies({"U1"}, {"0"}, {ZoomDash, ZoomRandomDash}, {"23"}, {"false"},
                                    {Loopback}),
     uuidOK |-> {TRUE},
     wr |-> {TRUE},
     readings |-> {Reading(FALSE, 50, FALSE, 50, FALSE, 10)},
     rd |-> {"ok"},
     addrs |-> {IP1, IP2},
     firsts |-> {<<"GET /", "WHATSMYIPMAN", " HTTP/1.1">>, <<"WHATSMYIPMAN">>, <<"data">>},
     lengths |-> {1, 2}]

ReplayStep(I) ==
    \/ \E t \in TConns, ip \in I.addrs, rdOK \in BOOLEAN, first \in I.firsts, n \in I.lengths,
          wr \in BOOLEAN, parseOK \in BOOLEAN : TCPFirstRead(t, ip, rdOK, first, n, wr, parseOK)
    \/ \E t \in TConns, rdOK \in BOOLEAN, n \in I.lengths : TCPWait(t, rdOK, n)
    \/ \E t \in TConns : TCPHas(t)
    \/ \E t \in TConns, wr \in BOOLEAN : TCPWrite(t, wr)
    \/ \E ip \in I.addrs, buffer \in I.firsts, rdOK \in BOOLEAN : UDPDatagram(ip, buffer, rdOK)

NextReplay ==
    \/ \E c \in SessionConns : AdmissionStep(c, ReplayInputs) \/ CloseStep(c)
    \/ ReplayStep(ReplayInputs)

SpecReplay == Init /\ [][NextReplay]_vars

\* SpecAnalysis: one client that declares replays of both types, reports their
\* throughputs and asks for the analysis
SampleJSON == "[[7.1,7.0],[0.3,0.4]]"
ZeroXputJSON == "[[0.0],[0.1]]"

AnalysisInputs ==
    [declareIDs |-> DeclareIDBodies({"U1"}, {"0", "1"}, {ZoomDash}, {"23"}, {"false"}, {IP2}),
     uuidOK |-> {TRUE},
     wr |-> {TRUE},
     xputs |-> {<<"10.0", GoodJSON>>, <<"10.0", SampleJSON>>, <<"10.0", ZeroXputJSON>>,
                <<"10.0", "[[0.0,7.1,0.0,7.1],[0.0,0.3]]">>, <<"10.0", "[[7.1],[0.0]]">>},
     fileOK |-> {TRUE},
     declareReplays |-> {<<"0", ZoomDash, "false">>, <<"1", ZoomRandomDash, "true">>,
                         <<"1", NoSuchReplay, "true">>},
     ksOK |-> BOOLEAN]

AnalysisStep(c, I) ==
    \/ \E m \in I.declareIDs, u \in I.uuidOK : ReceiveID(c, m, u)
    \/ \E m \in I.xputs, f \in I.fileOK, i \in I.fileOK, wr \in I.wr :
           ReceiveThroughputs(c, m, f, i, wr)
    \/ \E m \in I.declareReplays, wr \in I.wr : DeclareReplay(c, m, wr)
    \/ \E k \in I.ksOK, wr \in I.wr : AnalyzeTest(c, k, wr)

NextAnalysis == \E c \in SessionConns : AnalysisStep(c, AnalysisInputs) \/ CloseStep(c)

SpecAnalysis == Init /\ [][NextAnalysis]_vars

\* SpecProbe: the clients of SpecAdmission on a server whose memory or disk is
\* at its limit or one percent above it
ProbeInputs ==
    [AdmissionInputs EXCEPT
        !.readings = {Reading(FALSE, MemLimit, FALSE, 50, FALSE, 10),
                      Reading(FALSE, 50, FALSE, DiskLimit, FALSE, 10),
                      Reading(FALSE, MemLimit + 1, FALSE, 50, FALSE, 10),
                      Reading(FALSE, 50, FALSE, DiskLimit + 1, FALSE, 10)}]

NextProbe == \E c \in Conns : AdmissionStep(c, ProbeInputs) \/ CloseStep(c)

SpecProbe == Init /\ [][NextProbe]_vars

\* SpecLegacy: the clients of SpecAdmission on their last replay, and handlers
\* that, once their loop is left, return and run their deferred calls
LegacyInputs ==
    [AdmissionInputs EXCEPT
        !.declareIDs = DeclareIDBodies({"U1"}, {"0"}, {ZoomDash, NoSuchReplay}, {"23"}, {"true"},
                                       {IP1, Loopback})]

NextLegacy == \E c \in Conns : AdmissionStep(c, LegacyInputs) \/ CloseStep(c)

SpecLegacy == Init /\ [][NextLegacy]_vars /\ \A c \in Conns : WF_vars(RunDeferred(c))

\* SpecReplayLive: the steps that a replay handler takes on its own (the gate
\* once enough bytes are counted, the registry lookup, the sleep and the write)
\* are taken; a conn.Read returns only when the client sends or closes
TCPProceeds(t) ==
    /\ tcp[t].pc = "wait"
    /\ LET info == ParseReplayJSON(tcp[t].replay) IN
       IF tcp[t].i > Len(info.Responses) \/ ~info.IsTCP THEN TRUE
       ELSE tcp[t].numBytes >= info.Responses[tcp[t].i].RequestLength
    /\ \E n \in ReplayInputs.lengths : TCPWait(t, TRUE, n)

SpecReplayLive ==
    /\ Init /\ [][NextReplay]_vars
    /\ \A t \in TConns :
           /\ WF_vars(TCPProceeds(t))
           /\ WF_vars(TCPHas(t))
           /\ WF_vars(\E wr \in BOOLEAN : TCPWrite(t, wr))

\* ------------------------------------------------------ old analysis server

\* analysisServerClient: the key of a Client is UserID + strconv.Itoa(TestID);
\* getClient and deleteClient are given the two strings of the request
KeyOf(cl) == cl.UserID \o Itoa(cl.TestID)
addClient(table, cl) ==
    [k \in DOMAIN table \cup {KeyOf(cl)} |-> IF k = KeyOf(cl) THEN cl ELSE table[k]]
clientExists(table, userID, testID) == (userID \o testID) \in DOMAIN table
getClient(table, userID, testID) == table[userID \o testID]
deleteClient(table, userID, testID) ==
    [k \in DOMAIN table \ {userID \o testID} |-> table[k]]

\* the responses of the server: the status line and the JSON body
Failure(e) == [status |-> "200", success |-> FALSE, error |-> e]
NotProvided(key) == Failure(key \o " not provided")

\* oldGetResult with the deleteClient ahead of every check
oldGetResultDeletesFirst(table, q) ==
    [http |-> Failure("No result found"),
     table |-> deleteClient(table, q.userID, q.historyCount)]

\* oldGetResult on the query q, its parameters "" when absent (getFormValue):
\* the response, and the table after the request
oldGetResult(table, q) ==
    IF q.command = "" THEN [http |-> NotProvided("command"), table |-> table]
    ELSE IF q.command # "singleResult" THEN
        [http |-> Failure("unknown command"), table |-> table]
    ELSE IF q.userID = "" THEN [http |-> NotProvided("userID"), table |-> table]
    ELSE IF q.historyCount = "" THEN [http |-> NotProvided("historyCount"), table |-> table]
    ELSE IF q.testID = "" THEN [http |-> NotProvided("testID"), table |-> table]
    ELSE IF ~AtoiOK(q.testID) THEN [http |-> Failure("%v"), table |-> table]
    ELSE IF ~clientExists(table, q.userID, q.historyCount) THEN
        [http |-> Failure("No result found"), table |-> table]
    ELSE LET cl == getClient(table, q.userID, q.historyCount)
             found == {i \in 1 .. Len(cl.ReplayResults) :
                          cl.ReplayResults[i].ReplayID = Atoi(q.testID)} IN
        IF found = {} THEN [http |-> Failure("No result found"), table |-> table]
        ELSE IF cl.Analysis = NoAnalysis THEN
            [http |-> Failure("No result found"), table |-> table]
        ELSE LET first == CHOOSE i \in found : \A j \in found : i <= j IN
            [http |-> [status |-> "200", success |-> TRUE, error |-> "",
                       response |-> [replayName |-> cl.ReplayResults[first].ReplayName,
                                     userID |-> q.userID,
                                     historyCount |-> q.historyCount,
                                     testID |-> q.testID,
                                     xput_avg_original |-> cl.Analysis[1].OriginalReplayStats,
                                     xput_avg_test |-> cl.Analysis[1].RandomReplayStats]],
             table |-> deleteClient(table, q.userID, q.historyCount)]

\* GET /Results
OldGetResult(q) ==
    /\ ~crashed
    /\ http' = oldGetResult(unanalyzedTests, q).http
    /\ unanalyzedTests' = oldGetResult(unanalyzedTests, q).table
    /\ UNCHANGED <<sideVars, replayVars, frameVars, ks>>

\* POST /Results: oldAnalyzeTest answers success and does nothing
OldAnalyzeTest ==
    /\ ~crashed
    /\ http' = [status |-> "200", success |-> TRUE, error |-> ""]
    /\ UNCHANGED <<sideVars, replayVars, unanalyzedTests, frameVars, ks>>

\* oldHandleRequest on any other method
OldInvalidMethod ==
    /\ ~crashed
    /\ http' = [status |-> "405", success |-> FALSE, error |-> "Invalid request method"]
    /\ UNCHANGED <<sideVars, replayVars, unanalyzedTests, frameVars, ks>>

\* SpecResults: the old analysis server over the tables that addClient builds
\* from the Clients of legacy sessions: a first Original replay, or an
\* Original and a Random replay with their samples and the analysis
FirstReplay(userID, testID) ==
    AddReplay(NewClient(1, userID, testID, IP1, "1.0"), Original, ZoomUnder, FALSE)
Sampled(cl, json) == ReceiveThroughputsOf(cl, <<"10.0", json>>, TRUE).cl
Analyzed(cl) == [cl EXCEPT !.Analysis = <<AnalyzeTestOf(cl, TRUE).analysis>>]
LastReplay(userID, testID) ==
    Analyzed(Sampled(AddReplay(Sampled(FirstReplay(userID, testID), GoodJSON),
                               Random, ZoomRandomUnder, TRUE), SampleJSON))

StoredClients ==
    {FirstReplay(u, t) : u \in {"U1", "U12"}, t \in {3, 23}}
    \cup {LastReplay(u, t) : u \in {"U1", "U12"}, t \in {3, 23}}

RECURSIVE TableOf(_)
\* addClient for each Client of a sequence in turn
TableOf(clients) ==
    IF clients = <<>> THEN <<>>
    ELSE addClient(TableOf(SubSeq(clients, 1, Len(clients) - 1)), clients[Len(clients)])

StoredTables ==
    {<<>>} \cup {TableOf(<<a>>) : a \in StoredClients}
    \cup {TableOf(<<a, b>>) : a \in StoredClients, b \in StoredClients}

Queries ==
    [command : {"", "singleResult", "history"}, userID : {"", "U1", "U12"},
     historyCount : {"", "3", "23"}, testID : {"", "0", "1", "x"}]

InitResults == InitProcess /\ unanalyzedTests \in StoredTables

NextResults ==
    \/ \E q \in Queries : OldGetResult(q)
    \/ OldAnalyzeTest
    \/ OldInvalidMethod

SpecResults == InitResults /\ [][NextResults]_vars

\* ------------------------------------------------ framing of the side channel

\* the bytes of the characters that the messages of the model are made of
Ascii ==
    ("0" :> 48) @@ ("1" :> 49) @@ ("2" :> 50) @@ ("3" :> 51) @@ ("+" :> 43) @@ ("-" :> 45) @@
    (";" :> 59) @@ ("a" :> 97)
Bytes(text) == [i \in DOMAIN text |-> Ascii[text[i]]]

\* strconv.Itoa, as bytes
RECURSIVE ItoaBytes(_)
ItoaBytes(n) ==
    IF n < 10 THEN <<Ascii["0"] + n>> ELSE ItoaBytes(n \div 10) \o <<Ascii["0"] + (n % 10)>>

\* strconv.Atoi on bytes: an optional sign, then digits only, and at least one
RECURSIVE Decimal(_)
Decimal(d) ==
    IF d = <<>> THEN 0
    ELSE Decimal(SubSeq(d, 1, Len(d) - 1)) * 10 + (d[Len(d)] - Ascii["0"])
AtoiBytes(s) ==
    LET signed == s # <<>> /\ s[1] \in {Ascii["+"], Ascii["-"]}
        digits == IF signed THEN Tail(s) ELSE s IN
    IF digits = <<>> \/ \E i \in DOMAIN digits : digits[i] \notin Ascii["0"] .. Ascii["0"] + 9
    THEN [ok |-> FALSE, n |-> 0]
    ELSE [ok |-> TRUE,
          n |-> IF s[1] = Ascii["-"] THEN 0 - Decimal(digits) ELSE Decimal(digits)]

\* the length of the length prefix of the old protocol
LengthWidth == 10

zfill(s, width) ==
    IF Len(s) >= width THEN s ELSE [i \in 1 .. (width - Len(s)) |-> Ascii["0"]] \o s

\* oldSendResponse: what its two conn.Write calls put on the connection, the
\* first wr of them succeeding
oldSendResponse(message, wr) ==
    IF wr = 0 THEN <<>>
    ELSE IF wr = 1 THEN zfill(ItoaBytes(Len(message)), LengthWidth)
    ELSE zfill(ItoaBytes(Len(message)), LengthWidth) \o message

\* oldReadRequest on a connection that delivers bytes and no more: io.ReadFull
\* fails short of the bytes it wants, and make panics on a negative length
oldReadRequest(bytes) ==
    IF Len(bytes) < LengthWidth THEN [kind |-> "err"]
    ELSE IF ~AtoiBytes(SubSeq(bytes, 1, LengthWidth)).ok THEN [kind |-> "err"]
    ELSE LET dataLength == AtoiBytes(SubSeq(bytes, 1, LengthWidth)).n IN
         IF dataLength < 0 THEN [kind |-> "panic"]
         ELSE IF Len(bytes) < LengthWidth + dataLength THEN [kind |-> "err"]
         ELSE [kind |-> "ok",
               message |-> SubSeq(bytes, LengthWidth + 1, LengthWidth + dataLength)]

\* what a client of the current protocol writes: the opcode, the length of the
\* body in three bytes, the most significant first, and the body
Frame(op, body) ==
    <<op, (Len(body) \div 65536) % 256, (Len(body) \div 256) % 256, Len(body) % 256>> \o body

\* readRequest with the three bytes of the length read the least significant
\* first
readRequestLittleEndian(bytes) ==
    IF Len(bytes) < 4 THEN [kind |-> "err", op |-> invalid]
    ELSE IF bytes[1] = oldDeclareID THEN
        [kind |-> "ok", op |-> bytes[1], first4 |-> SubSeq(bytes, 1, 4), message |-> <<>>]
    ELSE LET dataLength == bytes[4] * 65536 + bytes[3] * 256 + bytes[2] IN
         IF Len(bytes) < 4 + dataLength THEN [kind |-> "err", op |-> invalid]
         ELSE [kind |-> "ok", op |-> bytes[1], first4 |-> <<>>,
               message |-> SubSeq(bytes, 5, 4 + dataLength)]

\* readRequest on a connection that delivers bytes and no more
readRequest(bytes) ==
    IF Len(bytes) < 4 THEN [kind |-> "err", op |-> invalid]
    ELSE IF bytes[1] = oldDeclareID THEN
        [kind |-> "ok", op |-> bytes[1], first4 |-> SubSeq(bytes, 1, 4), message |-> <<>>]
    ELSE LET dataLength == bytes[2] * 65536 + bytes[3] * 256 + bytes[4] IN
         IF Len(bytes) < 4 + dataLength THEN [kind |-> "err", op |-> invalid]
         ELSE [kind |-> "ok", op |-> bytes[1], first4 |-> <<>>,
               message |-> SubSeq(bytes, 5, 4 + dataLength)]

\* the replays of udpSenderCount that the clients of the model declare
udpSenderCount == {ZoomDash, ZoomRandomDash}

\* the Client that oldDeclareID makes of a declaration
DeclaredClient(c, pieces) ==
    LET p == ParseDeclareID(pieces, PeerAddr(c)) IN
    AddReplay(NewClient(c, p.userID, p.testID, p.publicIP, p.clientVersion),
              p.replayID, p.replayName, p.isLastReplay)

\* oldSendUDPSenderCount: the bytes it writes
oldSendUDPSenderCount(cl, wr) ==
    IF ~HasCurrentReplay(cl) THEN <<>>
    ELSE IF CurrentReplay(cl).ReplayName \in udpSenderCount
         THEN oldSendResponse(Bytes(<<"1">>), wr)
         ELSE oldSendResponse(Bytes(<<"0">>), wr)

OldSendResponse(message, wr) ==
    /\ ~crashed
    /\ wire' = oldSendResponse(message, wr)
    /\ got' = NoMsg
    /\ UNCHANGED <<sideVars, replayVars, resultVars, ks>>

OldSendUDPSenderCount(c, pieces, wr) ==
    /\ ~crashed
    /\ ParseDeclareID(pieces, PeerAddr(c)).kind = "ok"
    /\ wire' = oldSendUDPSenderCount(DeclaredClient(c, pieces), wr)
    /\ got' = NoMsg
    /\ UNCHANGED <<sideVars, replayVars, resultVars, ks>>

\* a client of the current protocol sends a frame
ClientFrame(op, body) ==
    /\ ~crashed
    /\ wire' = Frame(op, body)
    /\ got' = NoMsg
    /\ UNCHANGED <<sideVars, replayVars, resultVars, ks>>

\* a client of the old protocol sends the ten bytes of a length and a body
ClientOldFrame(prefix, body) ==
    /\ ~crashed
    /\ wire' = prefix \o body
    /\ got' = NoMsg
    /\ UNCHANGED <<sideVars, replayVars, resultVars, ks>>

OldReadRequest ==
    /\ ~crashed
    /\ got' = oldReadRequest(wire)
    /\ IF got'.kind = "panic"
       THEN Panic /\ UNCHANGED <<lastOp, replayVars, wire, ks>> /\ unanalyzedTests' = <<>>
                  /\ UNCHANGED http
       ELSE UNCHANGED <<wire, sideVars, replayVars, resultVars, ks>>

ReadRequest ==
    /\ ~crashed
    /\ got' = readRequest(wire)
    /\ UNCHANGED wire
    /\ UNCHANGED <<sideVars, replayVars, resultVars, ks>>

\* the messages of the model: texts of at most MaxLen characters, and bodies
\* long enough to fill the second and the third byte of a length
MaxLen == 3
Bodies ==
    {Bytes(t) : t \in UNION {[1 .. n -> {"0", ";", "a"}] : n \in 0 .. MaxLen}}
    \cup {[i \in 1 .. n |-> Ascii["a"]] : n \in {256, 65537}}
\* the messages that the server sends in the old protocol
Messages == {m \in Bodies : Len(m) <= 256}

\* the ten bytes that a client of the old protocol may send for a length: the
\* length of a body, and texts that are no length
Prefixes ==
    {zfill(ItoaBytes(n), LengthWidth) : n \in 0 .. MaxLen}
    \cup {Bytes(<<"-", "0", "0", "0", "0", "0", "0", "0", "0", "1">>),
          Bytes(<<"+", "0", "0", "0", "0", "0", "0", "0", "0", "1">>),
          Bytes(<<"0", "0", "0", "0", "0", "0", "0", "0", "a", "1">>)}

\* SpecFraming: the framing functions and the sender count of the old protocol,
\* each applied on its own to the messages of the model
NextFraming ==
    \/ \E c \in Conns, m \in LegacyInputs.declareIDs, wr \in {2} : OldSendUDPSenderCount(c, m, wr)
    \/ \E m \in Messages, wr \in 0 .. 2 : OldSendResponse(m, wr)
    \/ \E op \in AssignedOpcodes, body \in Bodies : ClientFrame(op, body)
    \/ \E prefix \in Prefixes, body \in {m \in Messages : Len(m) <= 1} :
           ClientOldFrame(prefix, body)
    \/ OldReadRequest
    \/ ReadRequest

SpecFraming == Init /\ [][NextFraming]_vars

\* ------------------------------------------------------------- the jackknife

\* alpha in hundredths, as the p-values of the model; and r, the rounds
alpha == 95
Rounds == 100

\* randomSample: the slices it may return. newSize of 0 gives the empty slice,
\* newSize of len(data) gives data; otherwise a copy of data is shuffled and
\* its first newSize values are returned
randomSampleWithReplacement(data, newSize) ==
    IF newSize < 0 \/ newSize > Len(data) THEN {}
    ELSE [1 .. newSize -> {data[j] : j \in DOMAIN data}]

randomSample(data, newSize) ==
    IF newSize < 0 \/ newSize > Len(data) THEN {}
    ELSE IF newSize = 0 THEN {<<>>}
    ELSE IF newSize = Len(data) THEN {data}
    ELSE {SubSeq([i \in DOMAIN data |-> data[p[i]]], 1, newSize) :
             p \in Permutations(DOMAIN data)}

\* SampleKS2 is called
SampleKS2Call(data1, data2, ks2pVal) ==
    /\ ~crashed
    /\ ks.pc = "idle"
    /\ ks' = [pc |-> "loop", data1 |-> data1, data2 |-> data2, ks2pVal |-> ks2pVal,
              greater |-> ks2pVal >= (100 - alpha), i |-> 0, accept |-> 0,
              ratio |-> -100]
    /\ UNCHANGED <<sideVars, replayVars, resultVars, frameVars>>

\* one round of the loop of SampleKS2. ksOK, pVal: the python subprocess of
\* KS2Samp runs and prints a statistic and the p-value pVal
SampleKS2Round(sub1, sub2, ksOK, pVal) ==
    /\ ~crashed
    /\ ks.pc = "loop"
    /\ ks.i < Rounds
    /\ sub1 \in randomSample(ks.data1, Len(ks.data1) \div 2)
    /\ sub2 \in randomSample(ks.data2, Len(ks.data2) \div 2)
    /\ ks' = IF ~ksOK THEN [ks EXCEPT !.pc = "err"]  \* returns -1.0, -1.0, -1.0, err
             ELSE [ks EXCEPT !.i = @ + 1,
                             !.accept = IF ks.greater
                                        THEN (IF pVal > 100 - alpha THEN @ + 1 ELSE @)
                                        ELSE (IF pVal < 100 - alpha THEN @ + 1 ELSE @)]
    /\ UNCHANGED <<sideVars, replayVars, resultVars, frameVars>>

\* the loop is over: SampleKS2 returns accept / r
SampleKS2Return ==
    /\ ~crashed
    /\ ks.pc = "loop"
    /\ ks.i >= Rounds
    /\ ks' = [ks EXCEPT !.pc = "done", !.ratio = (ks.accept * 100) \div Rounds]
    /\ UNCHANGED <<sideVars, replayVars, resultVars, frameVars>>

\* SpecJackknife: SampleKS2 on cleaned datasets of two and four samples, with
\* p-values below, at and above 1 - alpha; Draws are the slices of the right
\* size over the values of a dataset, of which randomSample returns some
Draws(data) == [1 .. Len(data) \div 2 -> {data[j] : j \in DOMAIN data}]

NextJackknife ==
    \/ \E data1 \in {<<71, 71, 70, 5>>, <<1, 2>>}, ks2pVal \in {1, 5, 50} :
           SampleKS2Call(data1, <<1, 2>>, ks2pVal)
    \/ \E sub1 \in Draws(ks.data1), sub2 \in Draws(ks.data2), pVal \in {1, 5, 50} :
           SampleKS2Round(sub1, sub2, TRUE, pVal)
    \/ \E sub1 \in Draws(ks.data1), sub2 \in Draws(ks.data2) :
           SampleKS2Round(sub1, sub2, FALSE, 0)
    \/ SampleKS2Return

SpecJackknife == Init /\ [][NextJackknife]_vars

\* ------------------------------------------------------------------ claims

AllowedResp ==
    [code |-> okResponse, body |-> <<ask4PermissionOkStatus, Itoa(samplesPerReplay)>>]
IPInUseResp ==
    [code |-> okResponse, body |-> <<ask4PermissionErrorStatus, ask4PermissionIPInUseMsg>>]
ErrorResp == [code |-> errorResponse, body |-> <<>>]

\* the session of connection c, while its handler is in the loop
Connected(c) == ~crashed /\ pc[c] \in {"read", "probe"} /\ clt[c] # Nil
Session(c) == obj[clt[c]]

\* connection c identified itself once, and the last answer it got, to its
\* ask4permission, was "allowed"
Admitted(c) == Connected(c) /\ Len(defers[c]) = 1 /\ resp[c] = AllowedResp

\* this step answers an ask4permission of connection c, and the answer is written
AnswersAsk4Permission(c) ==
    \/ Ask4PermissionCheck(c, TRUE) /\ pc'[c] # "probe"
    \/ \E rd \in Readings : Ask4PermissionAdmit(c, rd, TRUE)

\* C1: two connected sessions with the same public IP are never both admitted
\* at the same time, whatever the interleaving of their ask4permission requests.
C1_SingleFlight ==
    \A c \in Conns, d \in Conns :
        (c # d /\ Admitted(c) /\ Admitted(d)) => Session(c).PublicIP # Session(d).PublicIP

\* C2: an entry of the registry is inserted only by an admission that found
\* the resources adequate, for the public IP of the session that asked; every
\* connected session has a CleanUp for its public IP deferred; each deferred
\* CleanUp that runs when the connection ends leaves the registry without the
\* IP it names; and once every connection has ended the registry is empty, so
\* any IP can be admitted again.
C2_Lifecycle ==
    [][/\ \A ip \in DOMAIN clientIPs' :
             (~Has(clientIPs, ip) \/ Get(clientIPs', ip) # Get(clientIPs, ip))
             => \E c \in Conns, rd \in Readings, wr \in BOOLEAN :
                    /\ hasResources(rd)
                    /\ Ask4PermissionAdmit(c, rd, wr)
                    /\ ip = Session(c).PublicIP
       /\ \A c \in Conns :
             /\ Connected(c)' =>
                    \E i \in 1 .. Len(defers'[c]) : defers'[c][i] = Session(c)'.PublicIP
             /\ Len(defers'[c]) < Len(defers[c]) =>
                    ~Has(clientIPs', defers[c][Len(defers[c])])
       /\ (~crashed' /\ \A c \in Conns : pc'[c] = "closed") => clientIPs' = <<>>]_vars

\* every connection has ended, one of them after its session was admitted, and
\* the registry is empty
C2_Witness ==
    /\ ~crashed
    /\ \A c \in Conns : pc[c] = "closed"
    /\ \E c \in Conns : resp[c] = AllowedResp /\ err[c] = "read"
    /\ clientIPs = <<>>

\* the first replay of the session of c was permitted (the registry holds the
\* IP under its name) and sampled, the second was declared and accepted, and
\* nothing was refused so far
SecondReplayDeclared(c) ==
    /\ Live(c)
    /\ clt[c] # Nil
    /\ Len(defers[c]) = 1
    /\ Session(c).Exceptions = "NoExp"
    /\ Len(Session(c).ReplayResults) = 2
    /\ Session(c).ReplayResults[1].Throughputs # <<>>
    /\ Session(c).ReplayResults[2].Throughputs = <<>>
    /\ replayExists(ReplayNames, CurrentReplay(Session(c)).ReplayName)
    /\ Has(clientIPs, Session(c).PublicIP)
    /\ Get(clientIPs, Session(c).PublicIP) = Session(c).ReplayResults[1].ReplayName
    /\ Session(c).ReplayResults[1].ReplayName # Session(c).ReplayResults[2].ReplayName
    /\ resp[c] = AllowedResp

\* C3: after receiveID, an allowed ask4permission, a throughputs message and an
\* accepted declareReplay, the next ask4permission on the same connection is
\* not refused by the catalog or the registry, and with adequate resources it
\* is answered "0;100".
C3_SecondReplayAllowed ==
    [][\A c \in Conns :
          /\ (SecondReplayDeclared(c) /\ Ask4PermissionCheck(c, TRUE))
                => pc'[c] = "probe"
          /\ (SecondReplayDeclared(c) /\ pc[c] = "probe"
                /\ \E rd \in Readings : hasResources(rd) /\ Ask4PermissionAdmit(c, rd, TRUE))
                => resp'[c] = AllowedResp]_vars

\* C4: while a session with public IP X is admitted and connected, the answer
\* to an ask4permission of another session with public IP X and a replay of the
\* catalog is status "1" with reason "2", and that session's exceptions tag
\* becomes "NoPermission".
C4_DuplicateRefused ==
    [][\A c \in Conns, d \in Conns :
          (/\ c # d
           /\ Admitted(c)
           /\ clt[d] # Nil
           /\ Len(defers[d]) = 1
           /\ Session(d).PublicIP = Session(c).PublicIP
           /\ replayExists(ReplayNames, CurrentReplay(Session(d)).ReplayName)
           /\ AnswersAsk4Permission(d))
          => (resp'[d] = IPInUseResp /\ obj'[clt[d]].Exceptions = "NoPermission")]_vars

\* C5: a packet of a trace leaves the TCP engine only from the write that
\* follows a registry lookup which found the source IP; a connection whose
\* source IP the registry lacks is closed before it enters the replay loop; and
\* the UDP engine sends nothing.
C5_OnlyRegistered ==
    [][/\ \A t \in TConns :
             /\ tcp'[t].sent # tcp[t].sent => tcp[t].pc = "write"
             /\ (tcp'[t].pc = "write" /\ tcp[t].pc # "write") => Has(clientIPs, tcp[t].ip)
             /\ (tcp[t].pc = "accept" /\ tcp'[t].pc # "accept" /\ ~Has(clientIPs, tcp'[t].ip))
                   => (tcp'[t].pc = "closed" /\ tcp'[t].sent = <<>>)
       /\ udp'.sent = udp.sent]_vars

\* a replay had sent a packet when the registry lost the entry of its source IP
C5_Witness ==
    \E t \in TConns : tcp[t].sent # <<>> /\ tcp[t].pc = "closed" /\ ~Has(clientIPs, tcp[t].ip)

\* every replay of the session of c but the current one was sampled
EarlierReplaysSampled(c) ==
    \A i \in 1 .. (Len(Session(c).ReplayResults) - 1) :
        Session(c).ReplayResults[i].Throughputs # <<>>

\* C6: once the ask4permission of a connected session that identified itself
\* once is answered, the registry entry for its public IP, if there is one,
\* maps the IP to the name of the replay the session declared last (by
\* receiveID or by declareReplay).
C6_EntryIsCurrentReplay ==
    [][\A c \in Conns :
          (/\ clt[c] # Nil
           /\ Len(defers[c]) = 1
           /\ EarlierReplaysSampled(c)
           /\ AnswersAsk4Permission(c)
           /\ Has(clientIPs', Session(c).PublicIP))
          => Get(clientIPs', Session(c).PublicIP) = CurrentReplay(Session(c)).ReplayName]_vars

\* this step handles a frame of opcode op on connection c
Handles(c, op) ==
    \/ ClientNil(c, op)
    \/ op = ask4permission /\ \E wr \in BOOLEAN : Ask4PermissionCheck(c, wr)
    \/ op = mobileStats /\ \E m \in SpecInputs.stats, g \in BOOLEAN, wr \in BOOLEAN :
                              ReceiveMobileStats(c, m, g, wr)
    \/ op = throughputs /\ \E m \in SpecInputs.xputs, f \in BOOLEAN, i \in BOOLEAN, wr \in BOOLEAN :
                              ReceiveThroughputs(c, m, f, i, wr)
    \/ op = declareReplay /\ \E m \in SpecInputs.declareReplays, wr \in BOOLEAN :
                              DeclareReplay(c, m, wr)
    \/ op = analyzeTest /\ \E k \in BOOLEAN, wr \in BOOLEAN : AnalyzeTest(c, k, wr)

\* C7: while no receiveID was processed on a connection, a frame of any other
\* current-protocol opcode runs no handler (no response, no file, no Client
\* changed), creates no session, leaves the registry unchanged and closes the
\* connection.
C7_NewStateRejects ==
    [][\A c \in Conns, op \in AssignedOpcodes \ {receiveID, oldDeclareID} :
          (clt[c] = Nil /\ Handles(c, op))
          => /\ pc'[c] = "cleanup"
             /\ clt'[c] = Nil
             /\ clientIPs' = clientIPs
             /\ <<obj, resp, files, defers>>' = <<obj, resp, files, defers>>]_vars

\* a connection was closed for a frame sent before any receiveID
C7_Witness ==
    \E c \in Conns : pc[c] = "closed" /\ err[c] = "clientNil" /\ resp[c] = NoResp

\* C8: a receiveID frame on a connection that is already identified is
\* rejected and the connection is closed: no Client is made or changed and no
\* further CleanUp is deferred.
C8_ReceiveIDFirstOnly ==
    [][\A c \in Conns :
          (clt[c] # Nil /\ \E m \in SpecInputs.declareIDs, u \in BOOLEAN : ReceiveID(c, m, u))
          => (pc'[c] = "cleanup" /\ obj' = obj /\ defers' = defers)]_vars

\* the admission of the session of c for its current replay was allowed: the
\* registry holds its IP under the name of that replay and no request of the
\* session was refused
Permitted(c) ==
    /\ Has(clientIPs, Session(c).PublicIP)
    /\ Get(clientIPs, Session(c).PublicIP) = CurrentReplay(Session(c)).ReplayName
    /\ Session(c).Exceptions = "NoExp"

\* C9: a throughputs message is accepted (the current replay takes its samples
\* and the client is answered Ok) only when the session is permitted.
C9_ThroughputsOnlyPermitted ==
    [][\A c \in Conns :
          (/\ \E m \in SpecInputs.xputs, f \in BOOLEAN, i \in BOOLEAN :
                 ReceiveThroughputs(c, m, f, i, TRUE)
           /\ obj' # obj
           /\ resp'[c] = [code |-> okResponse, body |-> <<>>])
          => Permitted(c)]_vars

\* C10: a frame of an unassigned opcode, and a well-formed declareReplay that
\* arrives before the throughputs of the current replay, are answered with the
\* Error response, change no Client and close the connection.
C10_IllegalOpcode ==
    [][\A c \in Conns :
          (\/ \E op \in SpecInputs.otherOps : UnknownOpcode(c, op)
           \/ /\ clt[c] # Nil
              /\ CurrentReplay(Session(c)).Throughputs = <<>>
              /\ \E m \in SpecInputs.declareReplays :
                     /\ DeclareReplayOf(Session(c), ReplayNames, m).kind = "ok"
                     /\ DeclareReplay(c, m, TRUE))
          => (resp'[c] = ErrorResp /\ obj' = obj /\ pc'[c] = "cleanup")]_vars

\* the attempts of a Client that have the replay type t
AttemptsOfType(cl, t) == {i \in 1 .. Len(cl.ReplayResults) : cl.ReplayResults[i].ReplayID = t}

\* the analyzeTest handler of c runs and stores a verdict
StoresVerdict(c) ==
    /\ clt[c] # Nil
    /\ \E k \in BOOLEAN, wr \in BOOLEAN : AnalyzeTest(c, k, wr)
    /\ Session(c)'.Analysis # NoAnalysis
    /\ Session(c)'.Analysis # Session(c).Analysis

\* C11: analyzeTest stores a verdict only for a session of at least two replay
\* attempts with exactly one Original and exactly one Random among them;
\* otherwise it stores nothing, so a session that has a verdict has attempts of
\* the two types only.
C11_VerdictNeedsOnePair ==
    [][\A c \in Conns :
          /\ StoresVerdict(c) =>
                 /\ Len(Session(c).ReplayResults) >= 2
                 /\ Cardinality(AttemptsOfType(Session(c), Original)) = 1
                 /\ Cardinality(AttemptsOfType(Session(c), Random)) = 1
          /\ (clt[c] # Nil /\ (\E k \in BOOLEAN, wr \in BOOLEAN : AnalyzeTest(c, k, wr))
              /\ ~StoresVerdict(c)) => Session(c)'.Analysis = Session(c).Analysis]_vars

\* the Average of a DataSetStats is the mean of the non-zero values of data
AverageIs(stats, data) ==
    /\ Len(CleanedData(data)) > 0
    /\ stats.Sum * Len(CleanedData(data)) = SumSeq(CleanedData(data)) * Len(stats.Data)

\* C12: the verdict stored for a session of one Original and one Random
\* attempt takes OriginalAvgThroughput from the throughput samples of the
\* Original attempt and RandomAvgThroughput from the throughput samples of the
\* Random attempt, each the mean of the non-zero samples; sample times are not
\* used.
C12_ComparesThroughputs ==
    [][\A c \in Conns :
          (StoresVerdict(c) /\ Len(Session(c).ReplayResults) = 2)
          => LET cl == Session(c)
                 o == CHOOSE i \in AttemptsOfType(cl, Original) : TRUE
                 r == CHOOSE i \in AttemptsOfType(cl, Random) : TRUE
                 a == Session(c)'.Analysis[1] IN
             /\ AverageIs(a.OriginalReplayStats, cl.ReplayResults[o].Throughputs)
             /\ AverageIs(a.RandomReplayStats, cl.ReplayResults[r].Throughputs)]_vars


\* the opcodes of the current protocol, in the order of the const block
CurrentOpcodes ==
    <<receiveID, ask4permission, mobileStats, throughputs, declareReplay, analyzeTest>>

\* this step runs a handler of the current protocol on connection c
RunsCurrentHandler(c) ==
    \/ \E m \in SpecInputs.declareIDs, u \in BOOLEAN : ReceiveID(c, m, u)
    \/ \E wr \in BOOLEAN : Ask4PermissionCheck(c, wr)
    \/ \E m \in SpecInputs.stats, g \in BOOLEAN, wr \in BOOLEAN : ReceiveMobileStats(c, m, g, wr)
    \/ \E m \in SpecInputs.xputs, f \in BOOLEAN, i \in BOOLEAN, wr \in BOOLEAN :
           ReceiveThroughputs(c, m, f, i, wr)
    \/ \E m \in SpecInputs.declareReplays, wr \in BOOLEAN : DeclareReplay(c, m, wr)
    \/ \E k \in BOOLEAN, wr \in BOOLEAN : AnalyzeTest(c, k, wr)

\* this step runs the legacy sub-protocol on connection c
RunsLegacy(c) == \E m \in SpecInputs.declareIDs, rd \in SpecInputs.rd : OldDeclareID(c, m, rd)

\* C13: the opcodes of the current protocol are pairwise distinct, differ from
\* 0x30 and are less than 0x30; a frame whose first byte is 0x30 is handed to
\* the legacy sub-protocol and runs no handler of the current protocol.
C13_LegacyDemux ==
    [][/\ \A i, j \in DOMAIN CurrentOpcodes :
              /\ i # j => CurrentOpcodes[i] # CurrentOpcodes[j]
              /\ CurrentOpcodes[i] # oldDeclareID
              /\ CurrentOpcodes[i] < oldDeclareID
       /\ \A c \in Conns :
              /\ (Live(c) /\ lastOp[c] # oldDeclareID /\ lastOp'[c] = oldDeclareID)
                     => RunsLegacy(c)
              /\ lastOp'[c] = oldDeclareID => ~RunsCurrentHandler(c)]_vars

\* a frame of first byte 0x30 ended in the legacy sub-protocol
C13_Witness ==
    \E c \in Conns : lastOp[c] = oldDeclareID /\ err[c] = "oldDeclareID" /\ pc[c] = "closed"

\* the last frame dispatched on connection c went to the legacy sub-protocol
HandedToLegacy(c) == lastOp[c] = oldDeclareID

C15_DemuxOnFirstFrameOnly ==
    [][\A c \in Conns :
          clt[c] # Nil
          => ~\E m \in AdmissionInputs.declareIDs, rd \in {"ok", "err"} : OldDeclareID(c, m, rd)]_vars

UnknownReplayResp ==
    [code |-> okResponse,
     body |-> <<ask4PermissionErrorStatus, ask4PermissionUnknownReplayMsg>>]
LowResourcesResp ==
    [code |-> okResponse,
     body |-> <<ask4PermissionErrorStatus, ask4PermissionLowResourcesMsg>>]

\* C16: ask4permission checks the catalog, then the registry, then the
\* resources, and returns at the first check that fails: a replay name that is
\* not in the catalog is answered "1" also when the IP is registered, a
\* registered IP is answered "2" before any resource probe runs, and the probes
\* run only when both checks have passed.
C16_CheckOrder ==
    [][\A c \in Conns :
          (clt[c] # Nil /\ HasCurrentReplay(Session(c)) /\ Ask4PermissionCheck(c, TRUE))
          => LET cl == Session(c)
                 known == replayExists(ReplayNames, CurrentReplay(cl).ReplayName)
                 inUse == Has(clientIPs, cl.PublicIP) IN
             /\ ~known => (resp'[c] = UnknownReplayResp /\ pc'[c] = "read")
             /\ (known /\ inUse) => (resp'[c] = IPInUseResp /\ pc'[c] = "read")
             /\ (known /\ ~inUse) => (resp'[c] = resp[c] /\ pc'[c] = "probe")]_vars

\* a session was answered "2" for an IP that another session holds, and no
\* probe ran for it
C16_Witness ==
    \E c, d \in Conns :
        /\ c # d /\ Connected(c) /\ Connected(d)
        /\ resp[d] = AllowedResp
        /\ resp[c] = IPInUseResp /\ pc[c] = "read"
        /\ Session(c).PublicIP = Session(d).PublicIP
        /\ Has(clientIPs, Session(c).PublicIP)

\* C17: ask4permission puts (PublicIP, name of the current replay) into the
\* registry and answers "0" with "100" when the catalog check, the registry
\* check and the resource check have passed, and only then; an answer that
\* denies leaves the registry as it was.
C17_InsertOnlyOnAllow ==
    [][\A c \in Conns :
          clt[c] # Nil
          => LET cl == Session(c)
                 inserted == add(clientIPs, cl.PublicIP, CurrentReplay(cl).ReplayName) IN
             /\ \A wr \in BOOLEAN :
                    Ask4PermissionCheck(c, wr)
                    => /\ clientIPs' = clientIPs
                       /\ resp'[c] # AllowedResp \/ resp'[c] = resp[c]
             /\ \A rd \in Readings :
                    Ask4PermissionAdmit(c, rd, TRUE)
                    => /\ replayExists(ReplayNames, CurrentReplay(cl).ReplayName)
                       /\ IF hasResources(rd)
                          THEN clientIPs' = inserted /\ resp'[c] = AllowedResp
                          ELSE clientIPs' = clientIPs /\ resp'[c] = LowResourcesResp]_vars

\* one session was refused for low resources and its IP is not in the
\* registry, another was allowed and its IP is there under its replay name
C17_Witness ==
    \E c, d \in Conns :
        /\ Connected(c) /\ Connected(d)
        /\ resp[c] = LowResourcesResp
        /\ ~Has(clientIPs, Session(c).PublicIP)
        /\ resp[d] = AllowedResp
        /\ Has(clientIPs, Session(d).PublicIP)
        /\ Get(clientIPs, Session(d).PublicIP) = CurrentReplay(Session(d)).ReplayName

\* the response sets of the trace that the TCP connection t replays
ResponsesOf(t) == ParseReplayJSON(tcp[t].replay).Responses

RECURSIVE AllPackets(_)
\* the packets of the response sets, in trace order
AllPackets(sets) == IF sets = <<>> THEN <<>> ELSE Head(sets).Packets \o AllPackets(Tail(sets))

RECURSIVE RequestBytes(_)
\* the request byte counts of the response sets, added up
RequestBytes(sets) ==
    IF sets = <<>> THEN 0 ELSE Head(sets).RequestLength + RequestBytes(Tail(sets))

\* C18: the TCP engine passes the gate of response set i only when the bytes
\* counted since the gate of the set before it have reached RequestLength of set
\* i, so a connection that has sent a packet of set i has received at least the
\* request bytes of the sets 1 .. i; and what it has sent is always a prefix of
\* the packets of the trace in trace order, set after set.
C18_GatedInOrder ==
    [][\A t \in TConns :
          /\ (tcp[t].pc = "wait" /\ tcp'[t].pc = "send")
                 => tcp[t].numBytes >= ResponsesOf(t)[tcp[t].i].RequestLength
          /\ tcp'[t].sent # <<>> =>
                 LET sets == ResponsesOf(t)'
                     sent == tcp'[t].sent IN
                 /\ Len(sent) <= Len(AllPackets(sets))
                 /\ sent = SubSeq(AllPackets(sets), 1, Len(sent))
                 /\ \A i \in 1 .. Len(sets) :
                        Len(sent) > Len(AllPackets(SubSeq(sets, 1, i - 1)))
                        => tcp'[t].rcvd >= RequestBytes(SubSeq(sets, 1, i))]_vars

\* a replay sent the packets of both response sets of its trace
C18_Witness ==
    \E t \in TConns :
        /\ tcp[t].replay = ZoomUnder
        /\ tcp[t].sent = AllPackets(ParseReplayJSON(ZoomUnder).Responses)

\* C19: when the gate of response set i is passed with more bytes counted than
\* RequestLength of set i, and a set i+1 follows, the bytes beyond RequestLength
\* stay in the count for the gate of set i+1.
C19_SurplusCounts ==
    [][\A t \in TConns :
          (/\ tcp[t].pc = "wait" /\ tcp'[t].pc = "send"
           /\ tcp[t].i < Len(ResponsesOf(t)))
          => tcp'[t].numBytes = tcp[t].numBytes - ResponsesOf(t)[tcp[t].i].RequestLength]_vars

\* the replay loop of the TCP connection t runs
Replaying(t) == tcp[t].pc \in {"wait", "send", "write"}

\* C20: when the registry has lost the IP of a replay that is in progress, the
\* replay loop exits, whether it waits for request bytes, is about to look up
\* the registry, or sleeps before a write.
C20_CancelledReplayExits ==
    \A t \in TConns :
        (Replaying(t) /\ ~Has(clientIPs, tcp[t].ip)) ~> (tcp[t].pc = "closed" \/ crashed)

\* C21: no step of a replay engine ends the server process: a trace that
\* cannot be loaded, a trace of the other transport and a failed socket read
\* end the replay they belong to, and the process keeps running.
C21_ReplayFailureIsLocal ==
    [][ReplayStep(ReplayInputs) => ~crashed']_vars

\* this step is a handler of the current protocol that fails on connection c,
\* whose writes succeed
HandlerFails(c) ==
    /\ clt[c] # Nil
    /\ \/ \E m \in SpecInputs.declareReplays : DeclareReplay(c, m, TRUE)
       \/ \E m \in SpecInputs.xputs, f \in BOOLEAN, i \in BOOLEAN : ReceiveThroughputs(c, m, f, i, TRUE)
       \/ \E m \in SpecInputs.stats, g \in BOOLEAN : ReceiveMobileStats(c, m, g, TRUE)
       \/ Ask4PermissionCheck(c, TRUE)
       \/ \E k \in BOOLEAN : AnalyzeTest(c, k, TRUE)
    /\ err'[c] \in {"declareReplay", "throughputs", "mobileStats", "ask4permission", "analyzeTest"}

\* C22: when a handler of the current protocol fails for an identified
\* session, the Error response is written to the client, the loop is left and
\* no later frame of the connection is processed.
C22_ErrorResponseBeforeClose ==
    [][\A c \in Conns :
          HandlerFails(c) => (resp'[c] = ErrorResp /\ pc'[c] = "cleanup")]_vars

\* the last response is the success of a GET singleResult
GotResult == http.success /\ "response" \in DOMAIN http

\* C23: a GET /Results removes the session from the table of unanalyzed tests
\* when it answers success and only then: a GET that fails leaves the table
\* as it was, and the same GET once more after a success answers "No result
\* found".
C23_RemovedOnSuccessOnly ==
    [][\A q \in Queries :
          OldGetResult(q)
          => /\ IF http'.success
                THEN /\ clientExists(unanalyzedTests, q.userID, q.historyCount)
                     /\ unanalyzedTests' =
                            deleteClient(unanalyzedTests, q.userID, q.historyCount)
                     /\ ~clientExists(unanalyzedTests', q.userID, q.historyCount)
                ELSE unanalyzedTests' = unanalyzedTests
             /\ (/\ GotResult
                 /\ q.command = "singleResult"
                 /\ q.userID = http.response.userID
                 /\ q.historyCount = http.response.historyCount
                 /\ q.testID = http.response.testID)
                => http' = Failure("No result found")]_vars

\* a result was returned and its session is gone while another session stays
C23_Witness ==
    /\ GotResult
    /\ ~clientExists(unanalyzedTests, http.response.userID, http.response.historyCount)
    /\ unanalyzedTests # <<>>

\* a legacy declare-ID that is read in full and parses: the pieces it declares
WellFormedLegacy(c, m) ==
    OldDeclareID(c, m, "ok") /\ ParseDeclareID(m, PeerAddr(c)).kind = "ok"

\* C24: when a legacy connection declares a (user id, test id), the table of
\* unanalyzed tests holds an entry under that key afterwards: the stored
\* session, continued with the new attempt, if there was one, and a new entry
\* otherwise.
C24_LegacySessionStored ==
    [][\A c \in Conns, m \in AdmissionInputs.declareIDs :
          WellFormedLegacy(c, m)
          => LET p == ParseDeclareID(m, PeerAddr(c)) IN
             /\ clientExists(unanalyzedTests', p.userID, Itoa(p.testID))
             /\ LET cl == getClient(unanalyzedTests', p.userID, Itoa(p.testID)) IN
                /\ cl.IsLastReplay = p.isLastReplay
                /\ HasCurrentReplay(cl)
                /\ CurrentReplay(cl).ReplayName = p.replayName]_vars

\* C25: the legacy script of a last replay runs the analysis before the
\* connection closes: when handleOldSideChannel is done with a client that
\* declared its last replay and sent what the script reads, the stored session
\* has a non-null analysis, which a GET singleResult can then return.
C25_LastReplayAnalyzed ==
    [][\A c \in Conns, m \in LegacyInputs.declareIDs :
          (WellFormedLegacy(c, m) /\ ParseDeclareID(m, PeerAddr(c)).isLastReplay)
          => LET p == ParseDeclareID(m, PeerAddr(c)) IN
             /\ clientExists(unanalyzedTests', p.userID, Itoa(p.testID))
             /\ getClient(unanalyzedTests', p.userID, Itoa(p.testID)).Analysis # NoAnalysis]_vars

\* the bytes of a one-character message of the old protocol
OneChar(ch) == Bytes(<<"0", "0", "0", "0", "0", "0", "0", "0", "0", "1", ch>>)

Probes == {first \in ReplayInputs.firsts : IsWhatsMyIP(first)}

\* the TCP replay server answers a probe with the address it came from, closes
\* the connection, sends no packet of a replay and leaves the registry alone
TCPProbeAnswered ==
    \A t \in TConns, ip \in ReplayInputs.addrs, first \in Probes, n \in ReplayInputs.lengths,
       parseOK \in BOOLEAN :
        TCPFirstRead(t, ip, TRUE, first, n, TRUE, parseOK)
        => /\ tcp'[t].reply = <<"HTTP/1.1 200 OK", ip>>
           /\ tcp'[t].pc = "closed"
           /\ tcp'[t].sent = <<>>
           /\ clientIPs' = clientIPs

\* the UDP replay server sends an answer to a probe and leaves the registry alone
UDPProbeAnswered ==
    \A ip \in ReplayInputs.addrs, buffer \in Probes :
        UDPDatagram(ip, buffer, TRUE)
        => /\ Len(udp'.sent) > Len(udp.sent)
           /\ clientIPs' = clientIPs

\* C27: a WHATSMYIPMAN probe on a replay port, TCP or UDP, is answered with the
\* address it came from, registered or not; the probe changes no registry
\* entry and starts no replay, and the TCP connection is closed after the reply.
C27_ProbeAnswered == [][TCPProbeAnswered /\ UDPProbeAnswered]_vars

\* the registry entitles ip to the replay of a UDP trace
EntitledToUDP(ip) ==
    /\ Has(clientIPs, ip)
    /\ ParseReplayJSONOK(Get(clientIPs, ip))
    /\ ~ParseReplayJSON(Get(clientIPs, ip)).IsTCP

C29_FramingRoundTrip ==
    [][/\ OldReadRequest
          => \A m \in Messages :
                (Len(wire) = LengthWidth + Len(m) /\ wire = oldSendResponse(m, 2))
                => got' = [kind |-> "ok", message |-> m]
       /\ \A m \in Messages :
            OldSendResponse(m, 2)
            => /\ Len(wire') = LengthWidth + Len(m)
               /\ \A i \in 1 .. LengthWidth : wire'[i] \in Ascii["0"] .. Ascii["0"] + 9
               /\ SubSeq(wire', LengthWidth + 1, Len(wire')) = m
       /\ ReadRequest
          => \A i \in DOMAIN CurrentOpcodes, body \in Bodies :
                (/\ Len(wire) = 4 + Len(body)
                 /\ wire = <<CurrentOpcodes[i], (Len(body) \div 65536) % 256,
                             (Len(body) \div 256) % 256, Len(body) % 256>> \o body)
                => /\ got'.kind = "ok"
                   /\ got'.op = CurrentOpcodes[i]
                   /\ got'.message = body]_vars

C29_Witness ==
    /\ got.kind = "ok"
    /\ "op" \notin DOMAIN got
    /\ Len(got.message) = MaxLen
    /\ wire = oldSendResponse(got.message, 2)

\* a reading with the memory or the disk at exactly its limit and no probe
\* above its limit
AtLimit(rd) ==
    /\ rd.mem = MemLimit \/ rd.disk = DiskLimit
    /\ rd.mem <= MemLimit /\ rd.disk <= DiskLimit /\ rd.mbps <= UploadLimit

\* C30: when the memory probe or the disk probe reads exactly 95% used,
\* ask4permission denies admission with LowResources.
C30_DeniedAtLimit ==
    [][\A c \in Conns, rd \in ProbeInputs.readings :
          (AtLimit(rd) /\ Ask4PermissionAdmit(c, rd, TRUE))
          => resp'[c] = LowResourcesResp]_vars

\* C30 as amended: a reading of exactly 95% of memory or disk, with no probe
\* above its limit, is not an overload: the client is admitted and its IP
\* registered; a reading above 95% is answered LowResources and registers
\* nothing.
C30_AdmittedAtLimit ==
    [][\A c \in Conns, rd \in ProbeInputs.readings :
          Ask4PermissionAdmit(c, rd, TRUE)
          => IF AtLimit(rd)
             THEN /\ resp'[c] = AllowedResp
                  /\ Has(clientIPs', Session(c).PublicIP)
             ELSE /\ rd.mem > MemLimit \/ rd.disk > DiskLimit
                  /\ resp'[c] = LowResourcesResp
                  /\ clientIPs' = clientIPs]_vars

\* under SpecProbe every admitted client was admitted on a reading of exactly 95%
C30_Witness ==
    \E c \in Conns :
        /\ Connected(c)
        /\ resp[c] = AllowedResp
        /\ Has(clientIPs, Session(c).PublicIP)

\* C31: every read and every write of the registry map happens with the mutex
\* of the registry held: no handler is about to touch the map without it.
C31_MapsUnderMutex ==
    \A c \in Conns : \A i \in DOMAIN RegistryAccesses(c) : RegistryAccesses(c)[i].mutex

\* cleaned is data with exactly its zeros removed: the k-th value of data that
\* is not zero is the k-th value of cleaned, and cleaned has no other value
ZerosRemoved(cleaned, data) ==
    /\ Len(cleaned) = Cardinality({j \in DOMAIN data : data[j] # 0})
    /\ \A j \in DOMAIN data :
          data[j] # 0 => cleaned[Cardinality({i \in 1 .. j : data[i] # 0})] = data[j]

\* C32: the datasets of the analysis are the sequences it is given with
\* exactly their zeros removed, order and repeats kept; when one of them has
\* nothing but zeros the analysis fails with an error and stores no result.
C32_ZerosFiltered ==
    [][\A c \in Conns :
          (/\ clt[c] # Nil
           /\ \E k \in BOOLEAN : AnalyzeTest(c, k, TRUE)
           /\ Len(Session(c).ReplayResults) = 2
           /\ AttemptsOfType(Session(c), Original) # {}
           /\ AttemptsOfType(Session(c), Random) # {})
          => LET cl == Session(c)
                 o == CHOOSE i \in AttemptsOfType(cl, Original) : TRUE
                 r == CHOOSE i \in AttemptsOfType(cl, Random) : TRUE
                 xput == cl.ReplayResults[o].Throughputs
                 times == cl.ReplayResults[r].SampleTimes IN
             IF (\A i \in DOMAIN xput : xput[i] = 0) \/ (\A i \in DOMAIN times : times[i] = 0)
             THEN /\ Session(c)'.Analysis = cl.Analysis
                  /\ resp'[c] = ErrorResp
             ELSE Session(c)'.Analysis # cl.Analysis
                  => /\ ZerosRemoved(Session(c)'.Analysis[1].OriginalReplayStats.Data, xput)
                     /\ ZerosRemoved(Session(c)'.Analysis[1].RandomReplayStats.Data, times)]_vars

C32_Witness ==
    \E c \in Conns :
        /\ Connected(c)
        /\ Session(c).Analysis # NoAnalysis
        /\ Len(Session(c).ReplayResults) = 2
        /\ \E o \in AttemptsOfType(Session(c), Original) :
              /\ Session(c).ReplayResults[o].Throughputs = <<0, 71, 0, 71>>
              /\ Session(c).Analysis[1].OriginalReplayStats.Data = <<71, 71>>

\* how many times the value v occurs in the sequence seq
Occurrences(seq, v) == Cardinality({j \in DOMAIN seq : seq[j] = v})

\* sub is drawn from data without replacement: size values, none of them more
\* often than data holds it
DrawnWithoutReplacement(sub, data, size) ==
    /\ Len(sub) = size
    /\ \A j \in DOMAIN sub : Occurrences(sub, sub[j]) <= Occurrences(data, sub[j])

\* C33: SampleKS2 runs exactly r = 100 rounds; each round tests two subsets of
\* floor(n/2) values drawn without replacement from the two datasets, which are
\* not modified; a round is accepted when its p-value is above 0.05 and the
\* original p-value was at least 0.05, or when it is below 0.05 and the original
\* one was below 0.05; the ratio returned is accept / r and lies in [0, 1]
C33_Jackknife ==
    /\ [](ks.pc = "loop" =>
             /\ \A sub1 \in randomSample(ks.data1, Len(ks.data1) \div 2) :
                    DrawnWithoutReplacement(sub1, ks.data1, Len(ks.data1) \div 2)
             /\ \A sub2 \in randomSample(ks.data2, Len(ks.data2) \div 2) :
                    DrawnWithoutReplacement(sub2, ks.data2, Len(ks.data2) \div 2))
    /\ [][/\ (ks.pc = "loop" /\ ks'.pc = "loop") =>
                 /\ ks'.data1 = ks.data1 /\ ks'.data2 = ks.data2
                 /\ ks'.i = ks.i + 1
                 /\ \E pVal \in {1, 5, 50} :
                       /\ ks'.accept = ks.accept +
                              (IF \/ (ks.ks2pVal >= 5 /\ pVal > 5)
                                  \/ (ks.ks2pVal < 5 /\ pVal < 5) THEN 1 ELSE 0)
                       /\ LET sub1 == CHOOSE s \in randomSample(ks.data1, Len(ks.data1) \div 2) : TRUE
                              sub2 == CHOOSE s \in randomSample(ks.data2, Len(ks.data2) \div 2) : TRUE
                          IN  SampleKS2Round(sub1, sub2, TRUE, pVal)
          /\ ks'.pc = "done" =>
                 /\ SampleKS2Return
                 /\ ks.i = 100
                 /\ ks'.data1 = ks.data1 /\ ks'.data2 = ks.data2
                 /\ ks'.ratio * 100 = ks.accept * 100
                 /\ ks'.ratio >= 0 /\ ks'.ratio <= 100]_vars

\* a call whose original p-value was 0.05 has returned after accepting some
\* rounds and refusing others, on a dataset that holds a value twice
C33_Witness ==
    /\ ks.pc = "done"
    /\ ks.data1 = <<71, 71, 70, 5>>
    /\ ks.ks2pVal = 5
    /\ ks.accept = 37
    /\ ks.ratio = 37

\* C34: the teardown of a session that was not admitted leaves the registry as
\* it was; in particular it does not remove the entry of another session, still
\* connected and admitted, that has the same public IP. The session torn down
\* here identified itself once and was never answered an ask4permission.
C34_TeardownOfUnadmittedKeepsRegistry ==
    [][\A c \in Conns, d \in Conns :
          (/\ c # d
           /\ pc[c] = "cleanup"
           /\ Len(defers[c]) = 1
           /\ resp[c] = NoResp
           /\ Admitted(d)
           /\ Session(d).PublicIP = defers[c][1]
           /\ Has(clientIPs, Session(d).PublicIP)
           /\ RunDeferred(c))
          => clientIPs' = clientIPs]_vars

\* C36: a declare-ID body, of the current protocol or of the legacy one, with
\* any number of fields is either accepted or rejected with an error that ends
\* that connection only: the process keeps running and the other connections
\* stay as they are, for a body of seven fields too.
C36_DeclareIDNeverCrashes ==
    [][\A c \in Conns : \A pieces \in SpecInputs.declareIDs :
          (\/ \E uuidOK \in SpecInputs.uuidOK : ReceiveID(c, pieces, uuidOK)
           \/ \E rd \in SpecInputs.rd : OldDeclareID(c, pieces, rd))
          => (/\ ~crashed'
              /\ \A d \in Conns \ {c} : pc'[d] = pc[d] /\ clt'[d] = clt[d])]_vars

\* the ten bytes are a non-negative decimal: digits only
NonNegativeDecimal(prefix) == \A i \in DOMAIN prefix : prefix[i] \in Ascii["0"] .. Ascii["0"] + 9

C40_UnknownReplayChangesNothing ==
    [][\A c \in Conns : \A m \in AnalysisInputs.declareReplays :
          (/\ clt[c] # Nil
           /\ Len(m) >= 3
           /\ ~replayExists(ReplayNames, ReplaceDash(m[2]))
           /\ DeclareReplay(c, m, TRUE))
          => (/\ resp'[c].body = <<"1", "1">>
              /\ Session(c)'.ReplayResults = Session(c).ReplayResults
              /\ Session(c)'.IsLastReplay = Session(c).IsLastReplay)]_vars

====
